---- MODULE Spec2Model ----
(***************************************************************************)
(* A model of elphmod's SPMD core: the work distributor and the status     *)
(* channel of MPI.py, the dispersion engine and the band orderer of        *)
(* dispersion.py, and the call sites in diagrams.py and md.py that use     *)
(* them.                                                                   *)
(*                                                                         *)
(* Every worker (MPI rank) runs the same program.  pc[r] is the call stack *)
(* of worker r (its head is the statement r executes next), loc[r] are its *)
(* local variables, chan is the communicator: the collectives entered so   *)
(* far, in call order, with the buffers posted to them.  Arrays are        *)
(* functions on 0..n-1, as in Python.                                      *)
(***************************************************************************)
EXTENDS Integers, Sequences, FiniteSets, TLC

VARIABLES
  prog,      \* the entry point every worker runs
  arg,       \* its arguments (the same on every worker)
  comm_size, \* comm.size
  pc,        \* rank -> call stack of labels
  loc,       \* rank -> local variables
  ncoll,     \* rank -> number of collectives the rank has entered
  chan,      \* collectives entered so far: [op, buf: rank -> posted buffer]
  stdout     \* what has been printed: sequence of [rank, text]

vars == <<prog, arg, comm_size, pc, loc, ncoll, chan, stdout>>

----------------------------------------------------------------------------
\* Bounds of the model.

\* largest comm.size of the work distributor and status channel runs
MaxWorkers == 3
\* largest workload handed to distribute
MaxSize == 10
\* longest path handed to band_order on its own
MaxPath == 3
\* largest comm.size of the dispersion runs
MaxDispWorkers == 2
\* longest k-point list handed to dispersion
MaxPoints == 2

----------------------------------------------------------------------------
\* Arrays and the communicator.

Ranks == 0 .. comm_size - 1

\* an array of length n holds the indices 0..n-1
Range(n) == 0 .. n - 1

ArrLen(a) == Cardinality(DOMAIN a)

\* the array f with every cell computed (arrays are built once, like the
\* numpy arrays of the code, not recomputed at every read)
Stored(f) == f @@ <<>>

\* a[:m] of an array of length n, for m >= 0: the indices below min(m, n)
SliceTo(n, m) == {i \in Range(n) : i < m}

\* values an uninitialized integer cell may hold
GarbageInt == {0, 99}

\* np.empty(n, dtype=int): every cell holds whatever the memory held
np_empty_int(n) == {[i \in Range(n) |-> g] : g \in GarbageInt}

\* the collective a rank enters next is its (ncoll+1)-th on the communicator
NextColl(r) == ncoll[r] + 1

\* rank s has posted its buffer to collective i
Posted(i, s) == IF i <= Len(chan) THEN s \in DOMAIN chan[i].buf ELSE FALSE

\* rank s has entered collective i
Entered(i, s) == ncoll[s] >= i

\* the communicator after rank r entered collective i as `op`, posting `val`;
\* collectives match by call order, so a rank may only join an entry of the
\* same operation
Joinable(i, op) == IF i > Len(chan) THEN TRUE ELSE chan[i].op = op

Post(i, op, r, val) ==
  IF i > Len(chan)
    THEN Append(chan, [op |-> op, buf |-> (r :> val)])
    ELSE [chan EXCEPT ![i].buf = (r :> val) @@ @]

Arrive(i, op) ==
  IF i > Len(chan)
    THEN Append(chan, [op |-> op, buf |-> <<>>])
    ELSE chan

\* the statement a worker executes next, and its stack after a jump, a call
\* and a return
At(r, label) == Head(pc[r]) = label
Goto(r, label) == [pc EXCEPT ![r] = <<label>> \o Tail(@)]
Call(r, label, ret) == [pc EXCEPT ![r] = <<label, ret>> \o Tail(@)]
Return(r) == [pc EXCEPT ![r] = Tail(@)]

\* local variables before the first assignment
NoLocals ==
  [size |-> 0, sizes |-> <<>>, message |-> "", error |-> FALSE,
   d |-> <<>>, points |-> 0, my_points |-> <<>>, my_k |-> <<>>,
   my_v |-> <<>>, my_V |-> <<>>, v |-> <<>>, V |-> <<>>, o |-> <<>>,
   k |-> <<>>, v_mesh |-> <<>>, V_mesh |-> <<>>, o_mesh |-> <<>>]

\* Python binds a call of npos positional and kws keyword arguments to a
\* signature `params` without defaults only if every parameter gets exactly
\* one value; otherwise the call raises TypeError before the body runs
Binds(params, npos, kws) ==
  /\ npos <= Len(params)
  /\ kws \subseteq {params[j] : j \in (npos + 1) .. Len(params)}
  /\ npos + Cardinality(kws) = Len(params)

----------------------------------------------------------------------------
\* MPI.distribute (MPI.py 9-20)

\* def distribute(size)
distribute_params == <<"size">>

\* sizes[:] = size // comm.size; sizes[:size % comm.size] += 1
LeaderSizesOffByOne(size, w) ==
  [i \in Range(w) |->
     (size \div w) + (IF i \in SliceTo(w, (size % w) + 1) THEN 1 ELSE 0)]

LeaderSizes(size, w) ==
  [i \in Range(w) |->
     (size \div w) + (IF i \in SliceTo(w, size % w) THEN 1 ELSE 0)]

\* sizes = np.empty(comm.size, dtype=int)
DistAlloc(r) ==
  /\ At(r, "distribute:12")
  /\ \E s \in np_empty_int(comm_size) :
       loc' = [loc EXCEPT ![r].sizes = s]
  /\ pc' = Goto(r, "distribute:14")
  /\ UNCHANGED <<prog, arg, comm_size, ncoll, chan, stdout>>

\* if comm.rank == 0: sizes[:] = ...; sizes[:...] += 1
DistCompute(r) ==
  /\ At(r, "distribute:14")
  /\ loc' = IF r = 0
              THEN [loc EXCEPT ![r].sizes = LeaderSizes(loc[r].size, comm_size)]
              ELSE loc
  /\ pc' = Goto(r, "distribute:18")
  /\ UNCHANGED <<prog, arg, comm_size, ncoll, chan, stdout>>

\* what comm.Bcast leaves in the buffer of a rank other than the root
BcastKeepsOwn(own, sent) == own

BcastReceived(own, sent) == sent

\* comm.Bcast(sizes) on the root: the buffer is sent
DistBcastRoot(r) ==
  /\ At(r, "distribute:18")
  /\ r = 0
  /\ Joinable(NextColl(r), "Bcast")
  /\ chan' = Post(NextColl(r), "Bcast", r, loc[r].sizes)
  /\ ncoll' = [ncoll EXCEPT ![r] = @ + 1]
  /\ pc' = Goto(r, "distribute:20")
  /\ UNCHANGED <<prog, arg, comm_size, loc, stdout>>

\* comm.Bcast(sizes) elsewhere: blocks until the root's buffer has arrived
DistBcastRecv(r) ==
  /\ At(r, "distribute:18")
  /\ r # 0
  /\ Posted(NextColl(r), 0)
  /\ chan[NextColl(r)].op = "Bcast"
  /\ loc' = [loc EXCEPT ![r].sizes =
               BcastReceived(@, chan[NextColl(r)].buf[0])]
  /\ ncoll' = [ncoll EXCEPT ![r] = @ + 1]
  /\ pc' = Goto(r, "distribute:20")
  /\ UNCHANGED <<prog, arg, comm_size, chan, stdout>>

\* return sizes
DistReturn(r) ==
  /\ At(r, "distribute:20")
  /\ pc' = Return(r)
  /\ UNCHANGED <<prog, arg, comm_size, loc, ncoll, chan, stdout>>

\* a call MPI.distribute(n) as the examples and dispersion make it
CallDistribute(r) ==
  /\ At(r, "call distribute(size)")
  /\ IF Binds(distribute_params, 1, {})
       THEN /\ pc' = Call(r, "distribute:12", "done")
            /\ loc' = [loc EXCEPT ![r].size = arg.size]
       ELSE /\ pc' = Goto(r, "TypeError")
            /\ loc' = loc
  /\ UNCHANGED <<prog, arg, comm_size, ncoll, chan, stdout>>

\* sizes, bounds = MPI.distribute(nQ, bounds=True)   (diagrams.py 299)
PseCallDistribute(r) ==
  /\ At(r, "phonon_self_energy:299")
  /\ IF Binds(distribute_params, 1, {"bounds"})
       THEN /\ pc' = Call(r, "distribute:12", "phonon_self_energy:299 unpack")
            /\ loc' = [loc EXCEPT ![r].size = arg.size]
       ELSE /\ pc' = Goto(r, "TypeError")
            /\ loc' = loc
  /\ UNCHANGED <<prog, arg, comm_size, ncoll, chan, stdout>>

InitDistribute ==
  /\ comm_size \in 1 .. MaxWorkers
  /\ \E n \in 0 .. MaxSize :
       \/ /\ prog = "distribute"
          /\ arg = [size |-> n]
          /\ pc = [r \in Ranks |-> <<"call distribute(size)">>]
       \/ /\ prog = "phonon_self_energy"
          /\ arg = [size |-> n]
          /\ pc = [r \in Ranks |-> <<"phonon_self_energy:299">>]
  /\ loc = [r \in Ranks |-> NoLocals]
  /\ ncoll = [r \in Ranks |-> 0]
  /\ chan = <<>>
  /\ stdout = <<>>

NextDistribute ==
  \/ \E r \in Ranks : CallDistribute(r)
  \/ \E r \in Ranks : PseCallDistribute(r)
  \/ \E r \in Ranks : DistAlloc(r)
  \/ \E r \in Ranks : DistCompute(r)
  \/ \E r \in Ranks : DistBcastRoot(r)
  \/ \E r \in Ranks : DistBcastRecv(r)
  \/ \E r \in Ranks : DistReturn(r)

SpecDistribute == InitDistribute /\ [][NextDistribute]_vars

\* the workers' steps are scheduled fairly: a worker that can take a step
\* takes one
SpecDistributeFair == SpecDistribute /\ WF_vars(NextDistribute)

----------------------------------------------------------------------------
\* Claims about the work distributor.

\* worker r has returned from the distribute call it made
Returned(r) == prog = "distribute" /\ At(r, "done")

\* prefix sums of sizes: bounds[0] = 0, bounds[r+1] = bounds[r] + sizes[r]
RECURSIVE PrefixSum(_, _)
PrefixSum(sizes, j) == IF j = 0 THEN 0 ELSE PrefixSum(sizes, j - 1) + sizes[j - 1]

\* C1: for every n >= 0 and w >= 1, the array distribute returns has length w
\* and holds n // w + 1 at the indices below n % w and n // w at the others;
\* 10 over 3 workers gives [4, 3, 3] and 9 over 3 gives [3, 3, 3].
C1_DistributeSizes ==
  \A r \in Ranks :
    Returned(r) =>
      /\ DOMAIN loc[r].sizes = 0 .. comm_size - 1
      /\ \A i \in 0 .. comm_size - 1 :
           loc[r].sizes[i] =
             IF i < arg.size % comm_size
               THEN arg.size \div comm_size + 1
               ELSE arg.size \div comm_size
      /\ (arg.size = 10 /\ comm_size = 3) =>
           loc[r].sizes = (0 :> 4 @@ 1 :> 3 @@ 2 :> 3)
      /\ (arg.size = 9 /\ comm_size = 3) =>
           loc[r].sizes = (0 :> 3 @@ 1 :> 3 @@ 2 :> 3)

\* every worker of a run of 10 units over 3 workers has returned [4, 3, 3]
C1_Witness ==
  /\ arg.size = 10
  /\ comm_size = 3
  /\ \A r \in Ranks : Returned(r) /\ loc[r].sizes = (0 :> 4 @@ 1 :> 3 @@ 2 :> 3)

\* a step of a worker other than the leader that changes its sizes either
\* allocates the array or completes the broadcast with the leader's buffer
SizesOnlyByBcast ==
  \A r \in Ranks :
    (r # 0 /\ loc'[r].sizes # loc[r].sizes) =>
      \/ At(r, "distribute:12")
      \/ /\ At(r, "distribute:18")
         /\ ncoll'[r] = ncoll[r] + 1
         /\ Posted(ncoll'[r], 0)
         /\ loc'[r].sizes = chan[ncoll'[r]].buf[0]

\* a worker that has returned holds the sizes the leader computed and sent
AgreesWithLeader ==
  \A r \in Ranks :
    Returned(r) =>
      /\ Head(pc[0]) \in {"distribute:20", "done"}
      /\ loc[r].sizes = loc[0].sizes

\* C2: only the leader computes the sizes; every other worker gets them
\* through the broadcast alone, so a worker that has returned from distribute
\* holds the leader's sizes, whatever the interleaving.
C2_LeaderComputesAllAgree == []AgreesWithLeader /\ [][SizesOnlyByBcast]_vars

\* worker 1 has returned with the leader's sizes, which differ from what its
\* array held before the broadcast, while the leader is still inside distribute
C2_Witness ==
  /\ comm_size >= 2
  /\ Returned(1)
  /\ At(0, "distribute:20")
  /\ loc[1].sizes = loc[0].sizes
  /\ loc[1].sizes \notin np_empty_int(comm_size)

\* C3: the work distributor provides, with sizes, the array bounds of length
\* comm.size + 1 of their prefix sums; the call distribute(nQ, bounds=True) of
\* phonon_self_energy returns both, and worker r processes the q indices
\* bounds[r] .. bounds[r+1] - 1.
C3_BoundsProvided ==
  \A r \in Ranks :
    (prog = "phonon_self_energy" /\ ~At(r, "phonon_self_energy:299")) =>
      /\ ~At(r, "TypeError")
      /\ At(r, "phonon_self_energy:299 unpack") =>
           /\ "bounds" \in DOMAIN loc[r]
           /\ DOMAIN loc[r].bounds = 0 .. comm_size
           /\ \A j \in 0 .. comm_size :
                loc[r].bounds[j] = PrefixSum(loc[r].sizes, j)

\* C11: phonon_self_energy returns on every worker, each holding the same
\* complete array Pi of shape (nQ, nb) whose entry (iq, nu) is the value for
\* q[iq] and band nu, whatever the worker count: every worker of a run gets
\* past the call of the work distributor to the return of Pi at line 327.
C11_SelfEnergyReturned ==
  (prog = "phonon_self_energy") ~>
    (\A r \in Ranks : At(r, "phonon_self_energy:327"))

----------------------------------------------------------------------------
\* MPI.info (MPI.py 43-55) and its call in Driver.__init__ (md.py 59-67)

\* comm.barrier() lets a rank through once every rank has entered it
BarrierOpenAtOnce(i) == TRUE

BarrierOpen(i) == \A s \in Ranks : Entered(i, s)

\* if error: sys.exit()
InfoExitsLeaderOnly(r, error) == error /\ r = 0

InfoExits(r, error) == error

\* info(message, error): the parameters are bound, the body starts
CallInfo(r, message, error, ret) ==
  /\ loc' = [loc EXCEPT ![r].message = message, ![r].error = error]
  /\ pc' = Call(r, "info:46", ret)

\* comm.barrier(): the rank enters the barrier
InfoBarrierEnter(r) ==
  /\ At(r, "info:46")
  /\ Joinable(NextColl(r), "barrier")
  /\ chan' = Arrive(NextColl(r), "barrier")
  /\ ncoll' = [ncoll EXCEPT ![r] = @ + 1]
  /\ pc' = Goto(r, "info:46 wait")
  /\ UNCHANGED <<prog, arg, comm_size, loc, stdout>>

\* comm.barrier(): the rank leaves the barrier
InfoBarrierLeave(r) ==
  /\ At(r, "info:46 wait")
  /\ BarrierOpen(ncoll[r])
  /\ pc' = Goto(r, "info:48")
  /\ UNCHANGED <<prog, arg, comm_size, loc, ncoll, chan, stdout>>

\* if comm.rank == 0: [sys.stdout.write('Error: ')]; print(message)
InfoPrint(r) ==
  /\ At(r, "info:48")
  /\ stdout' =
       IF r # 0 THEN stdout
       ELSE IF loc[r].error
         THEN stdout \o << [rank |-> r, text |-> "Error: "],
                           [rank |-> r, text |-> loc[r].message] >>
         ELSE Append(stdout, [rank |-> r, text |-> loc[r].message])
  /\ pc' = Goto(r, "info:54")
  /\ UNCHANGED <<prog, arg, comm_size, loc, ncoll, chan>>

\* if error: sys.exit()   (SystemExit unwinds the whole stack; no caller
\* catches it)
InfoExitOrReturn(r) ==
  /\ At(r, "info:54")
  /\ pc' = IF InfoExits(r, loc[r].error)
             THEN [pc EXCEPT ![r] = <<"exited">>]
             ELSE Return(r)
  /\ UNCHANGED <<prog, arg, comm_size, loc, ncoll, chan, stdout>>

\* a call info(message, error) on every worker, such as diagrams.py 303
CallInfoDirect(r) ==
  /\ At(r, "call info(message, error)")
  /\ CallInfo(r, arg.message, arg.error, "done")
  /\ UNCHANGED <<prog, arg, comm_size, ncoll, chan, stdout>>

\* if not elph.el.rydberg: info("Initialize 'el' with 'rydberg=True'!",
\* error=True)
DriverCheckRydberg(r) ==
  /\ At(r, "Driver.__init__:60")
  /\ IF ~arg.rydberg
       THEN CallInfo(r, "Initialize 'el' with 'rydberg=True'!", TRUE,
                     "Driver.__init__:63")
       ELSE pc' = Goto(r, "Driver.__init__:63") /\ loc' = loc
  /\ UNCHANGED <<prog, arg, comm_size, ncoll, chan, stdout>>

\* if elph.divide_mass or elph.ph.divide_mass: info("Initialize 'ph' and
\* 'elph' with 'divide_mass=False'!", error=True)
DriverCheckDivideMass(r) ==
  /\ At(r, "Driver.__init__:63")
  /\ IF arg.divide_mass \/ arg.ph_divide_mass
       THEN CallInfo(r, "Initialize 'ph' and 'elph' with 'divide_mass=False'!",
                     TRUE, "Driver.__init__:67")
       ELSE pc' = Goto(r, "Driver.__init__:67") /\ loc' = loc
  /\ UNCHANGED <<prog, arg, comm_size, ncoll, chan, stdout>>

\* self.elph = elph, the first statement after the checks; the rest of the
\* constructor sets up the molecular-dynamics state and is not modelled
DriverProceed(r) ==
  /\ At(r, "Driver.__init__:67")
  /\ pc' = Goto(r, "Driver.__init__:69")
  /\ UNCHANGED <<prog, arg, comm_size, loc, ncoll, chan, stdout>>

InitInfo ==
  /\ comm_size \in 1 .. MaxWorkers
  /\ \/ /\ prog = "info"
        /\ \E e \in BOOLEAN : arg = [message |-> "Pi(q1, q2, nu) = ...", error |-> e]
        /\ pc = [r \in Ranks |-> <<"call info(message, error)">>]
     \/ /\ prog = "Driver.__init__"
        /\ \E ry, dm, pdm \in BOOLEAN :
             arg = [rydberg |-> ry, divide_mass |-> dm, ph_divide_mass |-> pdm]
        /\ pc = [r \in Ranks |-> <<"Driver.__init__:60">>]
  /\ loc = [r \in Ranks |-> NoLocals]
  /\ ncoll = [r \in Ranks |-> 0]
  /\ chan = <<>>
  /\ stdout = <<>>

NextInfo ==
  \/ \E r \in Ranks : CallInfoDirect(r)
  \/ \E r \in Ranks : DriverCheckRydberg(r)
  \/ \E r \in Ranks : DriverCheckDivideMass(r)
  \/ \E r \in Ranks : DriverProceed(r)
  \/ \E r \in Ranks : InfoBarrierEnter(r)
  \/ \E r \in Ranks : InfoBarrierLeave(r)
  \/ \E r \in Ranks : InfoPrint(r)
  \/ \E r \in Ranks : InfoExitOrReturn(r)

SpecInfo == InitInfo /\ [][NextInfo]_vars

\* every worker is a running process: as long as some worker can take a
\* step, a step is taken
SpecInfoFair == SpecInfo /\ WF_vars(NextInfo)

----------------------------------------------------------------------------
\* Claims about the status channel.

\* worker r is inside info or past it
InInfo(r) == ncoll[r] >= 1

\* C4: the leader prints the message of info only after every worker has
\* entered info (has reached the barrier), and no other worker ever prints.
C4_PrintAfterRendezvous ==
  /\ \A j \in 1 .. Len(stdout) : stdout[j].rank = 0
  /\ stdout # <<>> => \A r \in Ranks : InInfo(r)
  /\ \A r \in Ranks :
       Head(pc[r]) \in {"info:48", "info:54"} => \A s \in Ranks : InInfo(s)

\* the leader has printed while another worker is still waiting in the barrier
C4_Witness ==
  /\ comm_size >= 2
  /\ stdout # <<>>
  /\ \E r \in Ranks : r # 0 /\ At(r, "info:46 wait")

\* the run calls info with error=True
ErrorRun ==
  \/ prog = "info" /\ arg.error
  \/ prog = "Driver.__init__" /\
       (~arg.rydberg \/ arg.divide_mass \/ arg.ph_divide_mass)

\* the statements that follow the failing info call
AfterErrorCall ==
  IF prog = "info" THEN {"done"}
  ELSE IF ~arg.rydberg
    THEN {"Driver.__init__:63", "Driver.__init__:67", "Driver.__init__:69"}
    ELSE {"Driver.__init__:67", "Driver.__init__:69"}

AllExited == \A r \in Ranks : At(r, "exited")

\* no worker runs on after the failing call, a worker exits only once all
\* have entered the barrier, the error is reported once, and a worker that
\* waits in a barrier is not waiting for one that has exited
C5_Safety ==
  ErrorRun =>
    /\ \A r \in Ranks : Head(pc[r]) \notin AfterErrorCall
    /\ \A r \in Ranks : At(r, "exited") => \A s \in Ranks : InInfo(s)
    /\ \A r \in Ranks : ncoll[r] <= 1
    /\ Len(stdout) <= 2
    /\ AllExited => (Len(stdout) = 2 /\ stdout[1].text = "Error: ")

\* C5: when all workers call info with error=True, as Driver.__init__ does
\* when elph.el.rydberg is false or a divide_mass flag is set, every worker
\* passes the barrier and terminates: none executes a statement after the
\* call and none stays blocked at a collective for workers that have exited.
C5_ErrorTerminatesAll == []C5_Safety /\ (ErrorRun ~> AllExited)

\* all workers of a Driver built with rydberg=False have exited, the divide_mass
\* flags being set too
C5_Witness ==
  /\ prog = "Driver.__init__"
  /\ ~arg.rydberg /\ arg.divide_mass
  /\ comm_size >= 2
  /\ AllExited

----------------------------------------------------------------------------
\* Complex numbers <<re, im>> with integer parts.  Eigenvectors are given up
\* to one positive scale per point, which no comparison of overlaps at that
\* point depends on; eigenvalues are integers in units of 1e-10.

CMul(a, b) == <<a[1] * b[1] - a[2] * b[2], a[1] * b[2] + a[2] * b[1]>>
CAdd(a, b) == <<a[1] + b[1], a[2] + b[2]>>
CConj(a) == <<a[1], -a[2]>>

\* np.absolute(z), squared: the code only compares magnitudes
Abs2(z) == z[1] * z[1] + z[2] * z[2]

Abs(x) == IF x < 0 THEN -x ELSE x

RECURSIVE ArrSum(_, _)
\* a[0] + ... + a[n-1]
ArrSum(a, n) == IF n = 0 THEN 0 ELSE ArrSum(a, n - 1) + a[n - 1]

RECURSIVE CArrSum(_, _)
CArrSum(a, n) == IF n = 0 THEN <<0, 0>> ELSE CAdd(CArrSum(a, n - 1), a[n - 1])

\* np.dot(x, y) of two vectors
np_dot(x, y) == CArrSum([a \in DOMAIN x |-> CMul(x[a], y[a])], ArrLen(x))

\* V[n, :, j]: column j of the eigenvector matrix of point n
Column(V, n, j) == [a \in DOMAIN V[n] |-> V[n][a][j]]

\* max(range(n), key=...): Python returns the first of the largest
ArgMaxLast(n, key) ==
  CHOOSE j \in Range(n) :
    /\ \A l \in Range(n) : key[l] <= key[j]
    /\ \A l \in Range(n) : (l > j) => key[l] < key[j]

ArgMaxFirst(n, key) ==
  CHOOSE j \in Range(n) :
    /\ \A l \in Range(n) : key[l] <= key[j]
    /\ \A l \in Range(n) : (l < j) => key[l] < key[j]

\* sorted(range(n), key=...): ascending and stable
SortedDescending(n, key) ==
  [s \in Range(n) |->
     CHOOSE i \in Range(n) :
       Cardinality({l \in Range(n) :
         key[l] > key[i] \/ (key[l] = key[i] /\ l < i)}) = s]

Sorted(n, key) ==
  [s \in Range(n) |->
     CHOOSE i \in Range(n) :
       Cardinality({l \in Range(n) :
         key[l] < key[i] \/ (key[l] = key[i] /\ l < i)}) = s]

----------------------------------------------------------------------------
\* dispersion.band_order (dispersion.py 204-231)

\* the degeneracy threshold 1e-10, in the eigenvalue unit of 1e-10
gap_threshold == 1

\* np.all(np.absolute(np.diff(v[n])) > 1e-10)
GapsOpenNever(vn) == FALSE

GapsOpen(vn) ==
  \A i \in Range(ArrLen(vn) - 1) : Abs(vn[i + 1] - vn[i]) > gap_threshold

\* o[n, i] = max(range(bands), key=lambda j:
\*     np.absolute(np.dot(V[n0, :, o[n0, i]], V[n, :, j].conj())))
MatchRow(V, bands, n0, on0, n) ==
  Stored([i \in Range(bands) |->
     CHOOSE best \in
       {ArgMaxFirst(bands, overlap) :
          overlap \in {Stored([j \in Range(bands) |->
             Abs2(np_dot(Column(V, n0, on0[i]),
                         [a \in DOMAIN V[n] |-> CConj(V[n][a][j])]))])}} : TRUE])

RECURSIVE MatchLoop(_, _, _, _, _, _)
\* for n in range(1, points): the rows n.. of o, the rows below n being o
MatchLoop(v, V, points, n, n0, o) ==
  IF n >= points THEN [o |-> o, n0 |-> n0]
  ELSE CHOOSE rest \in
         {MatchLoop(v, V, points, n + 1, IF GapsOpen(v[n]) THEN n ELSE n0, o1) :
            o1 \in {Stored([m \in Range(n + 1) |->
                      IF m = n THEN MatchRow(V, ArrLen(v[0]), n0, o[n0], n)
                      ELSE o[m]])}} : TRUE

\* key of band slot i in line 229: v[:, o[:, i]].sum().  o[:, i] is a vector
\* of one band index per point, so v[:, o[:, i]] is the points x points array
\* of v[p, o[q, i]] over all pairs of points p, q
SlotKey(v, o, points, i) ==
  ArrSum([p \in Range(points) |->
            ArrSum([q \in Range(points) |-> v[p][o[q][i]]], points)], points)

\* o[:] = o[:, sorted(range(bands), key=lambda i: v[:, o[:, i]].sum())]
Relabel(v, o, points, bands) ==
  CHOOSE relabeled \in
    {[n \in Range(points) |-> [s \in Range(bands) |-> o[n][order[s]]]] :
       order \in {Stored(Sorted(bands, key)) :
         key \in {Stored([i \in Range(bands) |-> SlotKey(v, o, points, i)])}}} : TRUE

\* band_order(v, V, by_mean): the returned array o, or the exception raised.
\* With no point at all, o[n0] = range(bands) indexes row 0 of an empty array.
band_order(v, V, by_mean) ==
  IF ArrLen(v) = 0 THEN [raised |-> "IndexError", o |-> <<>>]
  ELSE CHOOSE result \in
         {[raised |-> "",
           o |-> IF by_mean THEN Relabel(v, o, ArrLen(v), ArrLen(v[0])) ELSE o] :
            o \in {MatchLoop(v, V, ArrLen(v), 1, 0,
                             [m \in Range(1) |-> [i \in Range(ArrLen(v[0])) |-> i]]).o}} :
         TRUE

\* the point used as anchor for matching point n (n >= 1)
AnchorOf(v, V, n) ==
  MatchLoop(v, V, n, 1, 0,
            [m \in Range(1) |-> [i \in Range(ArrLen(v[0])) |-> i]]).n0

\* Eigensystems of one point with two bands: eigenvalues v[band] and
\* eigenvectors V[basis][band].
Eig2(v0, v1, c00, c01, c10, c11) ==
  [v |-> (0 :> v0 @@ 1 :> v1),
   V |-> (0 :> (0 :> c00 @@ 1 :> c01) @@ 1 :> (0 :> c10 @@ 1 :> c11))]

PointCatalogue ==
  { \* diag(0, 5): the bands in place
    Eig2(0, 5, <<1, 0>>, <<0, 0>>, <<0, 0>>, <<1, 0>>),
    \* diag(5, 0): the bands crossed
    Eig2(0, 5, <<0, 0>>, <<1, 0>>, <<1, 0>>, <<0, 0>>),
    \* [[2.5, 2.5], [2.5, 2.5]]: eigenvectors (1, -1) and (1, 1) over sqrt 2
    Eig2(0, 5, <<1, 0>>, <<1, 0>>, <<-1, 0>>, <<1, 0>>),
    \* a degenerate point
    Eig2(3, 3, <<1, 0>>, <<0, 0>>, <<0, 0>>, <<1, 0>>),
    \* a gap of exactly 1e-10, the bands crossed
    Eig2(3, 4, <<0, 0>>, <<1, 0>>, <<1, 0>>, <<0, 0>>),
    \* complex eigenvectors (1, i) and (i, 1) over sqrt 2
    Eig2(0, 5, <<1, 0>>, <<0, 1>>, <<0, 1>>, <<1, 0>>),
    \* a rotation by less than 45 degrees: (2, -1) and (1, 2) over sqrt 5
    Eig2(0, 5, <<2, 0>>, <<1, 0>>, <<-1, 0>>, <<2, 0>>),
    \* eigenvalues a caller passes in descending order
    Eig2(5, 0, <<1, 0>>, <<0, 0>>, <<0, 0>>, <<1, 0>>) }

\* the paths of `points` points
Paths(points) == [Range(points) -> PointCatalogue]

\* o = band_order(v, V, by_mean)
CallBandOrder(r) ==
  /\ At(r, "call band_order(v, V, by_mean)")
  /\ LET res == band_order(arg.v, arg.V, arg.by_mean)
     IN IF res.raised # ""
          THEN pc' = Goto(r, res.raised) /\ loc' = loc
          ELSE pc' = Goto(r, "done") /\ loc' = [loc EXCEPT ![r].o = res.o]
  /\ UNCHANGED <<prog, arg, comm_size, ncoll, chan, stdout>>

InitBandOrder ==
  /\ comm_size = 1
  /\ prog = "band_order"
  /\ \E points \in 0 .. MaxPath : \E path \in Paths(points) : \E bm \in BOOLEAN :
       arg = [v |-> [n \in Range(points) |-> path[n].v],
              V |-> [n \in Range(points) |-> path[n].V],
              by_mean |-> bm]
  /\ pc = [r \in Ranks |-> <<"call band_order(v, V, by_mean)">>]
  /\ loc = [r \in Ranks |-> NoLocals]
  /\ ncoll = [r \in Ranks |-> 0]
  /\ chan = <<>>
  /\ stdout = <<>>

NextBandOrder == \E r \in Ranks : CallBandOrder(r)

SpecBandOrder == InitBandOrder /\ [][NextBandOrder]_vars

----------------------------------------------------------------------------
\* Claims about the band orderer.

BandOrderDone == prog = "band_order" /\ At(0, "done")

IsPermutation(row, bands) ==
  /\ DOMAIN row = Range(bands)
  /\ \A b \in Range(bands) : Cardinality({i \in Range(bands) : row[i] = b}) = 1

Ascending(vn) == \A i \in Range(ArrLen(vn) - 1) : vn[i] <= vn[i + 1]

\* C8: for every input path and every point n, the row order[n] band_order
\* returns is a permutation of the band indices 0..bands-1.
C8_RowsArePermutations ==
  BandOrderDone =>
    \A n \in DOMAIN loc[0].o : IsPermutation(loc[0].o[n], ArrLen(arg.v[0]))

\* C9 as claimed: band_order on a path of a single point returns the identity
\* permutation, for any eigenvalues and eigenvectors given at that point.
C9_SinglePointIdentityAlways ==
  (BandOrderDone /\ ArrLen(arg.v) = 1) =>
    \A i \in Range(ArrLen(arg.v[0])) : loc[0].o[0][i] = i

\* C9 as amended: band_order on a path of a single point returns the identity
\* permutation, for any eigenvectors, if the eigenvalues given at that point
\* are in ascending order (as the eigensolver returns them) or by_mean is off.
C9_SinglePointIdentity ==
  (BandOrderDone /\ ArrLen(arg.v) = 1 /\ (Ascending(arg.v[0]) \/ ~arg.by_mean)) =>
    /\ DOMAIN loc[0].o = {0}
    /\ \A i \in Range(ArrLen(arg.v[0])) : loc[0].o[0][i] = i

\* band_order has returned the identity for a single degenerate point, where
\* the relabeling by mean has to keep equal sums in place
C9_Witness ==
  /\ BandOrderDone
  /\ ArrLen(arg.v) = 1
  /\ arg.by_mean
  /\ arg.v[0] = (0 :> 3 @@ 1 :> 3)
  /\ loc[0].o = (0 :> (0 :> 0 @@ 1 :> 1))

\* the latest point below n whose consecutive eigenvalue gaps all exceed
\* the threshold in magnitude, or point 0 if there is none
LatestOpenPoint(v, n) ==
  LET open == {m \in Range(n) :
                 \A i \in Range(ArrLen(v[m]) - 1) :
                   v[m][i + 1] - v[m][i] > gap_threshold
                     \/ v[m][i] - v[m][i + 1] > gap_threshold}
  IN IF open = {} THEN 0
     ELSE CHOOSE m \in open : \A other \in open : other <= m

\* C14: in band_order the anchor used to match point n (n >= 1) is the
\* latest point m < n whose consecutive eigenvalue gaps all exceed 1e-10 in
\* magnitude, or point 0 if there is no such point; row n of the result is
\* the match of point n against that anchor's row.
C14_AnchorRule ==
  BandOrderDone =>
    \A n \in 1 .. ArrLen(arg.v) - 1 :
      LET a == LatestOpenPoint(arg.v, n)
      IN /\ AnchorOf(arg.v, arg.V, n) = a
         /\ loc[0].o[n] = MatchRow(arg.V, ArrLen(arg.v[0]), a, loc[0].o[a], n)

\* band_order has matched the third point of a path against point 0, the
\* gap of the second point being exactly the threshold; matched against the
\* second point its row would be another
C14_Witness ==
  /\ BandOrderDone
  /\ ArrLen(arg.v) = 3
  /\ arg.v[0] = (0 :> 0 @@ 1 :> 5)
  /\ arg.v[1] = (0 :> 3 @@ 1 :> 4)
  /\ AnchorOf(arg.v, arg.V, 2) = 0
  /\ loc[0].o[2] # MatchRow(arg.V, 2, 1, loc[0].o[1], 2)

\* the sum of the eigenvalues of slot i followed along the path: the sum
\* over the points p of v[p, order[p, i]]
PathSum(v, o, i) ==
  ArrSum([p \in DOMAIN v |-> v[p][o[p][i]]], ArrLen(v))

\* C15: with by_mean=True the slots of the result are relabeled so that the
\* sum of each slot's eigenvalues followed along the path, the sum over p of
\* v[p, order[p, i]], is non-decreasing in i, slots of equal sums keeping
\* their order; with by_mean=False the matched rows are returned as they are.
C15_RelabelByPathSum ==
  BandOrderDone =>
    LET matched == band_order(arg.v, arg.V, FALSE).o
        slots == Range(ArrLen(arg.v[0]))
    IN IF arg.by_mean
         THEN /\ \A i, j \in slots :
                   i < j => PathSum(arg.v, loc[0].o, i) <= PathSum(arg.v, loc[0].o, j)
              /\ \E order \in [slots -> slots] :
                   /\ \A n \in DOMAIN matched : \A s \in slots :
                        loc[0].o[n][s] = matched[n][order[s]]
                   /\ \A i, j \in slots :
                        (i < j /\ PathSum(arg.v, matched, order[i])
                                    = PathSum(arg.v, matched, order[j]))
                          => order[i] < order[j]
         ELSE loc[0].o = matched

----------------------------------------------------------------------------
\* The matrix functions handed to dispersion, with their eigensystems as
\* np.linalg.eigh returns them (eigenvalues ascending).  A k point is the
\* array [k1, k2].

\* matrix.size of the matrix functions below
bands == 2

\* k points of the runs
KPoints == {(0 :> 0 @@ 1 :> 1), (0 :> 1 @@ 1 :> 0)}

\* "diag":    matrix(k1, k2) = [[2 k2, 0], [0, 2 k1]]
\* "offdiag": matrix(k1, k2) = [[2 k1, 2 k2], [2 k2, 2 k1]], k2 >= 0
\* "tilted":  matrix(k1, k2) = [[4 + k1 + k2, -2], [-2, 1 + k1 + k2]], with
\*            the eigenvectors (1, 2) and (-2, 1) at every k
MatrixFunctions == {"diag", "offdiag"}

\* the matrices of the runs on a mesh
MeshMatrixFunctions == MatrixFunctions \cup {"tilted"}

np_linalg_eigh(matrix, k1, k2) ==
  IF matrix = "diag"
    THEN IF k2 <= k1
           THEN Eig2(2 * k2, 2 * k1, <<1, 0>>, <<0, 0>>, <<0, 0>>, <<1, 0>>)
           ELSE Eig2(2 * k1, 2 * k2, <<0, 0>>, <<1, 0>>, <<1, 0>>, <<0, 0>>)
    ELSE IF matrix = "tilted"
      THEN Eig2(k1 + k2, 5 + k1 + k2, <<1, 0>>, <<-2, 0>>, <<2, 0>>, <<1, 0>>)
    ELSE IF k2 = 0
           THEN Eig2(2 * k1, 2 * k1, <<1, 0>>, <<0, 0>>, <<0, 0>>, <<1, 0>>)
           ELSE Eig2(2 * (k1 - k2), 2 * (k1 + k2),
                     <<-1, 0>>, <<1, 0>>, <<1, 0>>, <<1, 0>>)

np_linalg_eigvalsh(matrix, k1, k2) == np_linalg_eigh(matrix, k1, k2).v

\* np.exp(-1j * np.angle(z)) for z on an axis of the complex plane, which is
\* where the largest components of the eigenvectors above lie
UnitPhaseConj(z) ==
  IF z[2] = 0 THEN (IF z[1] < 0 THEN <<-1, 0>> ELSE <<1, 0>>)
  ELSE (IF z[2] < 0 THEN <<0, 1>> ELSE <<0, -1>>)

\* my_V[point, :, band] *= np.exp(-1j * np.angle(max(my_V[point, :, band],
\*     key=abs))), for every band
Gauge(Vp) ==
  LET phase == Stored([b \in Range(bands) |->
        LET col == [a \in Range(bands) |-> Vp[a][b]]
            big == ArgMaxFirst(bands, [a \in Range(bands) |-> Abs2(col[a])])
        IN UnitPhaseConj(col[big])])
  IN [a \in Range(bands) |-> [b \in Range(bands) |-> CMul(Vp[a][b], phase[b])]]

\* atoms = bands // 3; the rotation loops over range(atoms)
atoms == bands \div 3

\* bravais.rotate(my_V[xy], -phi), phi the polar angle of the k point: the
\* geometry module is no part of the sources; the rotated pair is kept as the
\* pair it was made from and the k point that gives the angle
bravais_rotate(xy, k1, k2) == [rotated |-> xy, by |-> <<k1, k2>>]

\* for atom in range(atoms): for band in range(bands):
\*     xy = point, [atom, atom + atoms], band
\*     my_V[xy] = bravais.rotate(my_V[xy], -phi)
\* Matrices with fewer than three bands have no atom: range(atoms) is empty
\* and my_V stays as it is.
Rotate(Vp, k1, k2) ==
  [a \in Range(bands) |-> [b \in Range(bands) |->
     IF \E atom \in Range(atoms) : a \in {atom, atom + atoms}
       THEN LET atom == CHOOSE t \in Range(atoms) : a \in {t, t + atoms}
            IN bravais_rotate(<<Vp[atom][b], Vp[atom + atoms][b]>>, k1, k2)
       ELSE Vp[a][b]]]

----------------------------------------------------------------------------
\* Buffers of the collectives.

\* an array a of shape (n, w) as MPI sees it: row after row
FlattenRows(a, n, w) == Stored([x \in Range(n * w) |-> a[x \div w][x % w]])

\* the array of shape (n, w) over a flat buffer
Reshape(flat, n, w) ==
  Stored([p \in Range(n) |-> Stored([c \in Range(w) |-> flat[p * w + c]])])

\* an array a of shape (n, w, w), flat
Flatten3(a, n, w) ==
  Stored([x \in Range(n * w * w) |-> a[x \div (w * w)][(x \div w) % w][x % w]])

Reshape3(flat, n, w) ==
  Stored([p \in Range(n) |-> Stored([a \in Range(w) |->
    Stored([b \in Range(w) |-> flat[p * w * w + a * w + b]])])])

\* counts * m, element by element (my_points * 2, my_points * bands, ...)
TimesUnscaled(counts, m) == counts

Times(counts, m) == [s \in DOMAIN counts |-> counts[s] * m]

\* displacement of rank s in a buffer laid out by counts: MPI's default, the
\* ranks' blocks one after another
Displ(counts, s) == PrefixSum(counts, s)

\* the block of rank s of the root's send buffer of Scatterv
ScatterBlock(data, counts, s) ==
  Stored([x \in Range(counts[s]) |-> data[Displ(counts, s) + x]])

\* the root's receive buffer after Gatherv: the block of rank s from its send
\* buffer, the cells no block covers as they were
GatherBlocksReversed(bufs, counts, before) ==
  LET w == ArrLen(counts)
  IN Stored([x \in DOMAIN before |->
       IF \E s \in DOMAIN counts :
            Displ(counts, w) - Displ(counts, s + 1) <= x /\
              x < Displ(counts, w) - Displ(counts, s)
         THEN LET s == CHOOSE t \in DOMAIN counts :
                    Displ(counts, w) - Displ(counts, t + 1) <= x /\
                      x < Displ(counts, w) - Displ(counts, t)
              IN bufs[s][x - (Displ(counts, w) - Displ(counts, s + 1))]
         ELSE before[x]])

GatherBlocks(bufs, counts, before) ==
  Stored([x \in DOMAIN before |->
     IF \E s \in DOMAIN counts : Displ(counts, s) <= x /\ x < Displ(counts, s + 1)
       THEN LET s == CHOOSE t \in DOMAIN counts :
                  Displ(counts, t) <= x /\ x < Displ(counts, t + 1)
            IN bufs[s][x - Displ(counts, s)]
       ELSE before[x]])

\* values an uninitialized float cell may hold
GarbageFloat == {0, -7}

\* np.empty(n): a flat float buffer of n cells
np_empty(n) == {[x \in Range(n) |-> g] : g \in GarbageFloat}

\* what an uninitialized complex cell may hold: a value that is a component
\* of no eigenvector of the matrix functions above
GarbageComplex == {<<-7, 0>>}

\* np.empty(n, dtype=complex)
np_empty_complex(n) == {[x \in Range(n) |-> g] : g \in GarbageComplex}

----------------------------------------------------------------------------
\* dispersion.dispersion (dispersion.py 9-106).  The parameters of the call
\* are loc[r].d.

\* the blocks after the gather of the eigenvalues that the flags switch on,
\* in program order
StagesOrderNotSent(d) ==
  (IF d.order \/ d.vectors THEN <<"dispersion:69">> ELSE <<>>) \o
  (IF d.order THEN <<"dispersion:73">> ELSE <<>>) \o
  (IF d.broadcast THEN <<"dispersion:89">> ELSE <<>>) \o
  (IF d.broadcast /\ d.vectors THEN <<"dispersion:92">> ELSE <<>>) \o
  <<"dispersion:97">>

Stages(d) ==
  (IF d.order \/ d.vectors THEN <<"dispersion:69">> ELSE <<>>) \o
  (IF d.order THEN <<"dispersion:73">> ELSE <<>>) \o
  (IF d.broadcast THEN <<"dispersion:89">> ELSE <<>>) \o
  (IF d.broadcast /\ d.vectors THEN <<"dispersion:92">> ELSE <<>>) \o
  (IF d.broadcast /\ d.order THEN <<"dispersion:95">> ELSE <<>>) \o
  <<"dispersion:97">>

\* the statement that follows block `label`
After(d, label) ==
  LET st == Stages(d)
  IN IF label = "dispersion:65" THEN st[1]
     ELSE st[(CHOOSE j \in 1 .. Len(st) : st[j] = label) + 1]

\* root of a broadcast: the buffer is sent
BcastSend(r, op, val) ==
  /\ r = 0
  /\ Joinable(NextColl(r), op)
  /\ chan' = Post(NextColl(r), op, r, val)
  /\ ncoll' = [ncoll EXCEPT ![r] = @ + 1]

\* another rank of a broadcast: it waits for the root's buffer
BcastWait(r, op) ==
  /\ r # 0
  /\ Posted(NextColl(r), 0)
  /\ chan[NextColl(r)].op = op
  /\ ncoll' = [ncoll EXCEPT ![r] = @ + 1]
  /\ chan' = chan

\* the root's buffer of the collective rank r is completing
RootBuf(r) == chan[NextColl(r)].buf[0]

\* my_points = MPI.distribute(points): the call, with points bound to size
DispEnterDistribute(r, points) ==
  IF Binds(distribute_params, 1, {})
    THEN /\ pc' = Call(r, "distribute:12", "dispersion:24")
         /\ loc' = [loc EXCEPT ![r].points = points, ![r].size = points]
    ELSE /\ pc' = Goto(r, "TypeError")
         /\ loc' = [loc EXCEPT ![r].points = points]

\* points = len(k) if comm.rank == 0 else None; points = comm.bcast(points)
\* bands = matrix.size; my_points = MPI.distribute(points)
DispBcastPoints(r) ==
  /\ At(r, "dispersion:13")
  /\ \/ /\ BcastSend(r, "bcast", ArrLen(loc[r].d.k))
        /\ DispEnterDistribute(r, ArrLen(loc[r].d.k))
     \/ /\ BcastWait(r, "bcast")
        /\ DispEnterDistribute(r, BcastReceived(loc[r].points, RootBuf(r)))
  /\ UNCHANGED <<prog, arg, comm_size, stdout>>

\* the eigenvectors of one point after the optional gauge and rotation
LocalVectors(d, k1, k2) ==
  LET V0 == np_linalg_eigh(d.matrix, k1, k2).V
      V1 == IF d.gauge THEN Gauge(V0) ELSE V0
  IN IF d.rotate THEN Rotate(V1, k1, k2) ELSE V1

\* for point, (k1, k2) in enumerate(my_k): my_v[point] of the local points
LocalEigenvalues(d, my_k) ==
  [p \in DOMAIN my_k |->
     IF d.order \/ d.vectors
       THEN np_linalg_eigh(d.matrix, my_k[p][0], my_k[p][1]).v
       ELSE np_linalg_eigvalsh(d.matrix, my_k[p][0], my_k[p][1])]

\* my_V[point] of the local points, where eigenvectors are asked for
LocalEigenvectors(d, my_k, before) ==
  IF d.order \/ d.vectors
    THEN [p \in DOMAIN my_k |-> LocalVectors(d, my_k[p][0], my_k[p][1])]
    ELSE before

\* the local variables after the scatter has filled my_k and the loop over
\* the local points has run
Diagonalized(r, my_k) ==
  [loc EXCEPT ![r].my_points = loc[r].sizes,
              ![r].my_k = my_k,
              ![r].my_v = LocalEigenvalues(loc[r].d, my_k),
              ![r].my_V = LocalEigenvectors(loc[r].d, my_k, @)]

\* my_k = np.empty((my_points[comm.rank], 2)); my_v = ...; [my_V = ...]
\* comm.Scatterv((k, my_points * 2), my_k)
\* for point, (k1, k2) in enumerate(my_k): ...
\* (the scatter overwrites every cell of my_k, and the loop every cell of
\* my_v and my_V, before anything reads them)
DispScatterv(r) ==
  /\ At(r, "dispersion:24")
  /\ \E my_points \in {loc[r].sizes} :
     \E counts \in {Times(my_points, 2)} :
     \E flat \in {FlattenRows(loc[r].d.k, ArrLen(loc[r].d.k), 2)} :
       \/ /\ BcastSend(r, "Scatterv", [data |-> flat, counts |-> counts])
          /\ \E my_k \in {Reshape(ScatterBlock(flat, counts, r), my_points[r], 2)} :
               loc' = Diagonalized(r, my_k)
       \/ /\ BcastWait(r, "Scatterv")
          /\ \E my_k \in {Reshape(ScatterBlock(RootBuf(r).data, RootBuf(r).counts, r),
                                  my_points[r], 2)} :
               loc' = Diagonalized(r, my_k)
  /\ pc' = Goto(r, "dispersion:64")
  /\ UNCHANGED <<prog, arg, comm_size, stdout>>

\* every rank has posted its send buffer to collective i
AllPosted(i) == \A s \in Ranks : Posted(i, s)

\* a rank other than the root of a gather: its buffer is sent
GatherSend(r, op, val) ==
  /\ r # 0
  /\ Joinable(NextColl(r), op)
  /\ chan' = Post(NextColl(r), op, r, val)
  /\ ncoll' = [ncoll EXCEPT ![r] = @ + 1]

\* the root of a gather: it waits for the buffers of all other ranks
GatherWait(r, op, val) ==
  /\ r = 0
  /\ Joinable(NextColl(r), op)
  /\ \A s \in Ranks \ {0} : Posted(NextColl(r), s)
  /\ chan' = Post(NextColl(r), op, r, val)
  /\ ncoll' = [ncoll EXCEPT ![r] = @ + 1]

\* v = np.empty((points, bands)); comm.Gatherv(my_v, (v, my_points * bands))
DispGatherEigenvalues(r) ==
  /\ At(r, "dispersion:64")
  /\ LET n == loc[r].my_points[r]
         mine == FlattenRows(loc[r].my_v, n, bands)
         counts == Times(loc[r].my_points, bands)
     IN \E empty \in np_empty(loc[r].points * bands) :
          \/ /\ GatherSend(r, "Gatherv", mine)
             /\ loc' = [loc EXCEPT ![r].v = Reshape(empty, loc[r].points, bands)]
          \/ /\ GatherWait(r, "Gatherv", mine)
             /\ loc' = [loc EXCEPT ![r].v =
                  Reshape(GatherBlocks(chan'[NextColl(r)].buf, counts, empty),
                          loc[r].points, bands)]
  /\ pc' = Goto(r, After(loc[r].d, "dispersion:65"))
  /\ UNCHANGED <<prog, arg, comm_size, stdout>>

\* V = np.empty((points, bands, bands), dtype=complex)
\* comm.Gatherv(my_V, (V, my_points * bands ** 2))
DispGatherEigenvectors(r) ==
  /\ At(r, "dispersion:69")
  /\ LET n == loc[r].my_points[r]
         mine == Flatten3(loc[r].my_V, n, bands)
         counts == Times(loc[r].my_points, bands * bands)
     IN \E empty \in np_empty_complex(loc[r].points * bands * bands) :
          \/ /\ GatherSend(r, "Gatherv", mine)
             /\ loc' = [loc EXCEPT ![r].V = Reshape3(empty, loc[r].points, bands)]
          \/ /\ GatherWait(r, "Gatherv", mine)
             /\ loc' = [loc EXCEPT ![r].V =
                  Reshape3(GatherBlocks(chan'[NextColl(r)].buf, counts, empty),
                           loc[r].points, bands)]
  /\ pc' = Goto(r, After(loc[r].d, "dispersion:69"))
  /\ UNCHANGED <<prog, arg, comm_size, stdout>>

\* v[point] = v[point, o[point]]
TakeBands(vp, op) == [i \in Range(bands) |-> vp[op[i]]]

\* for band in range(bands): V[point, band] = V[point, band, o[point]]
\* (the loop variable runs over the rows of V[point]: each row is reindexed
\* by o[point], which permutes the columns)
TakeColumns(Vp, op) == [a \in Range(bands) |-> [i \in Range(bands) |-> Vp[a][op[i]]]]

\* if order: o = np.empty((points, bands), dtype=int)
\*     if comm.rank == 0: o = band_order(v, V); reorder v and V
DispOrder(r) ==
  /\ At(r, "dispersion:73")
  /\ \E d \in {loc[r].d} : \E n \in {loc[r].points} :
       IF r # 0
         THEN /\ \E empty \in np_empty_int(n * bands) :
                   loc' = [loc EXCEPT ![r].o = Reshape(empty, n, bands)]
              /\ pc' = Goto(r, After(d, "dispersion:73"))
         ELSE \E res \in {band_order(loc[r].v, loc[r].V, TRUE)} :
           IF res.raised # ""
             THEN /\ loc' = loc
                  /\ pc' = [pc EXCEPT ![r] = <<res.raised>>]
             ELSE /\ loc' = [loc EXCEPT
                       ![r].o = res.o,
                       ![r].v = [p \in Range(n) |-> TakeBands(loc[r].v[p], res.o[p])],
                       ![r].V = IF d.vectors
                                  THEN [p \in Range(n) |->
                                          TakeColumns(loc[r].V[p], res.o[p])]
                                  ELSE @]
                  /\ pc' = Goto(r, After(d, "dispersion:73"))
  /\ UNCHANGED <<prog, arg, comm_size, ncoll, chan, stdout>>

\* if broadcast: comm.Bcast(v)
DispBcastEigenvalues(r) ==
  /\ At(r, "dispersion:89")
  /\ \/ BcastSend(r, "Bcast", loc[r].v) /\ loc' = loc
     \/ /\ BcastWait(r, "Bcast")
        /\ loc' = [loc EXCEPT ![r].v = BcastReceived(@, RootBuf(r))]
  /\ pc' = Goto(r, After(loc[r].d, "dispersion:89"))
  /\ UNCHANGED <<prog, arg, comm_size, stdout>>

\* if vectors: comm.Bcast(V)
DispBcastEigenvectors(r) ==
  /\ At(r, "dispersion:92")
  /\ \/ BcastSend(r, "Bcast", loc[r].V) /\ loc' = loc
     \/ /\ BcastWait(r, "Bcast")
        /\ loc' = [loc EXCEPT ![r].V = BcastReceived(@, RootBuf(r))]
  /\ pc' = Goto(r, After(loc[r].d, "dispersion:92"))
  /\ UNCHANGED <<prog, arg, comm_size, stdout>>

\* if order: comm.Bcast(o)
DispBcastOrder(r) ==
  /\ At(r, "dispersion:95")
  /\ \/ BcastSend(r, "Bcast", loc[r].o) /\ loc' = loc
     \/ /\ BcastWait(r, "Bcast")
        /\ loc' = [loc EXCEPT ![r].o = BcastReceived(@, RootBuf(r))]
  /\ pc' = Goto(r, After(loc[r].d, "dispersion:95"))
  /\ UNCHANGED <<prog, arg, comm_size, stdout>>

\* return v[, V][, o]
DispReturn(r) ==
  /\ At(r, "dispersion:97")
  /\ pc' = Return(r)
  /\ UNCHANGED <<prog, arg, comm_size, loc, ncoll, chan, stdout>>

\* the k-point lists of `points` points
KLists(points) == [Range(points) -> KPoints]

InitDispersion ==
  /\ comm_size \in 1 .. MaxDispWorkers
  /\ prog = "dispersion"
  /\ \E points \in 0 .. MaxPoints : \E k \in KLists(points) :
     \E m \in MatrixFunctions : \E ve, ga, ro, od, br \in BOOLEAN :
       \* gauge and rotate are read only where eigenvectors are computed
       /\ (ve \/ od) \/ (~ga /\ ~ro)
       /\ arg = [matrix |-> m, k |-> k, vectors |-> ve, gauge |-> ga,
                 rotate |-> ro, order |-> od, broadcast |-> br]
  /\ pc = [r \in Ranks |-> <<"dispersion:13", "done">>]
  /\ loc = [r \in Ranks |-> [NoLocals EXCEPT !.d = arg]]
  /\ ncoll = [r \in Ranks |-> 0]
  /\ chan = <<>>
  /\ stdout = <<>>

NextDispersion ==
  \/ \E r \in Ranks : DispBcastPoints(r)
  \/ \E r \in Ranks : DistAlloc(r)
  \/ \E r \in Ranks : DistCompute(r)
  \/ \E r \in Ranks : DistBcastRoot(r)
  \/ \E r \in Ranks : DistBcastRecv(r)
  \/ \E r \in Ranks : DistReturn(r)
  \/ \E r \in Ranks : DispScatterv(r)
  \/ \E r \in Ranks : DispGatherEigenvalues(r)
  \/ \E r \in Ranks : DispGatherEigenvectors(r)
  \/ \E r \in Ranks : DispOrder(r)
  \/ \E r \in Ranks : DispBcastEigenvalues(r)
  \/ \E r \in Ranks : DispBcastEigenvectors(r)
  \/ \E r \in Ranks : DispBcastOrder(r)
  \/ \E r \in Ranks : DispReturn(r)

SpecDispersion == InitDispersion /\ [][NextDispersion]_vars

\* the workers are running processes: a worker that can take a step takes one
SpecDispersionFair == SpecDispersion /\ WF_vars(NextDispersion)

----------------------------------------------------------------------------
\* Claims about dispersion.

\* worker r has returned from the dispersion call of the run
DispReturned(r) == prog = "dispersion" /\ At(r, "done")

\* the eigensystem of every point of the list, as one worker computes it
RawEigenvalues(d) ==
  [p \in DOMAIN d.k |-> np_linalg_eigvalsh(d.matrix, d.k[p][0], d.k[p][1])]

RawEigenvectors(d) ==
  [p \in DOMAIN d.k |-> LocalVectors(d, d.k[p][0], d.k[p][1])]

\* C6: for every k-point list and every worker count (more workers than k
\* points included), row p of the eigenvalues dispersion(..., vectors=False,
\* order=False) returns on the leader is the eigenvalues of matrix(k[p]): the
\* scatter of contiguous slices and the rank-ordered gather keep the order of
\* the k points, so the result is that of a single worker.
C6_GatherKeepsOrder ==
  (DispReturned(0) /\ ~arg.vectors /\ ~arg.order) =>
    /\ DOMAIN loc[0].v = DOMAIN arg.k
    /\ \A p \in DOMAIN arg.k :
         loc[0].v[p] = np_linalg_eigvalsh(arg.matrix, arg.k[p][0], arg.k[p][1])

\* the leader of two workers has returned the eigenvalues of two k points
\* with different eigenvalues, one point from each worker
C6_Witness ==
  /\ DispReturned(0)
  /\ ~arg.vectors /\ ~arg.order
  /\ comm_size = 2
  /\ ArrLen(arg.k) = 2
  /\ loc[0].v[0] # loc[0].v[1]
  /\ loc[1].my_k = (0 :> arg.k[1])

\* the arrays the leader returns: the eigenvalues and eigenvectors of the k
\* points, reordered by the permutation where order is set
LeaderHoldsResults ==
  DispReturned(0) =>
    LET rawv == RawEigenvalues(arg)
        rawV == RawEigenvectors(arg)
        o == band_order(rawv, rawV, TRUE).o
    IN /\ arg.order => loc[0].o = o
       /\ \A p \in DOMAIN arg.k :
            /\ loc[0].v[p] = IF arg.order THEN TakeBands(rawv[p], o[p]) ELSE rawv[p]
            /\ arg.vectors =>
                 loc[0].V[p] = IF arg.order THEN TakeColumns(rawV[p], o[p])
                               ELSE rawV[p]
       /\ DOMAIN loc[0].v = DOMAIN arg.k

\* with broadcast=True a worker that has returned holds the leader's arrays
AllHoldLeaderArrays ==
  \A r \in Ranks :
    (DispReturned(r) /\ arg.broadcast) =>
      /\ Head(pc[0]) \in {"dispersion:97", "done"}
      /\ loc[r].v = loc[0].v
      /\ arg.vectors => loc[r].V = loc[0].V
      /\ arg.order => loc[r].o = loc[0].o

\* with broadcast=False the arrays of another worker are as np.empty left them
OthersHoldNothing ==
  \A r \in Ranks :
    (DispReturned(r) /\ ~arg.broadcast /\ r # 0) =>
      /\ FlattenRows(loc[r].v, loc[r].points, bands)
           \in np_empty(loc[r].points * bands)
      /\ arg.vectors =>
           Flatten3(loc[r].V, loc[r].points, bands)
             \in np_empty_complex(loc[r].points * bands * bands)
      /\ arg.order =>
           FlattenRows(loc[r].o, loc[r].points, bands)
             \in np_empty_int(loc[r].points * bands)

\* C7: after dispersion returns with broadcast=True every worker holds the
\* leader's final arrays: the eigenvalues (reordered when order=True), the
\* eigenvectors when vectors=True and the permutation when order=True; with
\* broadcast=False only the leader's returned arrays carry the results.
C7_BroadcastResults ==
  /\ LeaderHoldsResults
  /\ AllHoldLeaderArrays
  /\ OthersHoldNothing

\* worker 1 has returned the leader's reordered eigenvalues, eigenvectors and
\* permutation of two k points whose bands cross
C7_Witness ==
  /\ comm_size = 2
  /\ DispReturned(1)
  /\ arg.broadcast /\ arg.order /\ arg.vectors
  /\ arg.matrix = "diag"
  /\ ArrLen(arg.k) = 2
  /\ loc[1].o = (0 :> (0 :> 0 @@ 1 :> 1) @@ 1 :> (0 :> 1 @@ 1 :> 0))
  /\ loc[1].v = (0 :> (0 :> 0 @@ 1 :> 2) @@ 1 :> (0 :> 2 @@ 1 :> 0))
  /\ loc[1].V = loc[0].V

----------------------------------------------------------------------------
\* dispersion.dispersion_full (dispersion.py 108-202).  The parameters of the
\* call are arg; a mesh point is a pair <<K1, K2>> of indices below size.

\* the 60 degree rotation and the mirror of the hexagonal mesh, on the indices
\* of a mesh point
Rot60(p, size) == <<(0 - p[2]) % size, (p[1] + p[2]) % size>>

Mirror(p) == <<p[2], p[1]>>

RECURSIVE RotN(_, _, _)
RotN(p, j, size) == IF j = 0 THEN p ELSE RotN(Rot60(p, size), j - 1, size)

\* bravais.images(k1, k2, size): the mesh points equivalent to (k1, k2) by
\* symmetry.  The geometry module is no part of the sources: the orbit is
\* that of the hexagonal point group, with indices taken modulo size.
bravais_images(k1, k2, size) ==
  {RotN(<<k1 % size, k2 % size>>, j, size) : j \in 0 .. 5} \cup
  {Mirror(RotN(<<k1 % size, k2 % size>>, j, size)) : j \in 0 .. 5}

\* the order of tuples that sorted() uses
LexLess(p, q) == p[1] < q[1] \/ (p[1] = q[1] /\ p[2] < q[2])

\* bravais.irreducibles(size): one point of every orbit of the mesh, the
\* first in the order of tuples (G = (0 0), M = (0 6), K = (4 4) for the
\* 12 x 12 mesh of the comment at lines 127-135)
bravais_irreducibles(size) ==
  {p \in Range(size) \X Range(size) :
     \A q \in bravais_images(p[1], p[2], size) : p = q \/ LexLess(p, q)}

\* np.array(sorted(points)): row n is the point with n points before it
np_array_sorted(points) ==
  Stored([n \in Range(Cardinality(points)) |->
    LET p == CHOOSE q \in points :
               Cardinality({x \in points : LexLess(x, q)}) = n
    IN (0 :> p[1] @@ 1 :> p[2])])

\* mesh sizes of the runs
MaxMesh == 3

\* the least common multiple of 1 .. n
RECURSIVE LcmUpTo(_)
LcmUpTo(n) ==
  IF n <= 1 THEN 1
  ELSE LET l == LcmUpTo(n - 1)
           common == {l * j : j \in 1 .. n}
       IN CHOOSE m \in common :
            m % n = 0 /\ \A other \in common : other % n = 0 => m <= other

\* wavevector components are kept in units of 2 pi / FullTurn, so that
\* 2 * np.pi / size is a whole number of units for every mesh size
FullTurn == LcmUpTo(MaxMesh)

\* 2 * np.pi / size * k
Scaled(k, size) ==
  Stored([n \in DOMAIN k |-> [c \in DOMAIN k[n] |-> (FullTurn \div size) * k[n][c]]])

\* the parameters of the call of dispersion at lines 122-123 or 156-157
FullDispersionCall(a, k) ==
  IF a.order \/ a.vectors
    THEN [matrix |-> a.matrix, k |-> Scaled(k, a.size), vectors |-> TRUE,
          gauge |-> a.gauge, rotate |-> a.rotate, order |-> FALSE,
          broadcast |-> FALSE]
    ELSE [matrix |-> a.matrix, k |-> Scaled(k, a.size), vectors |-> FALSE,
          gauge |-> FALSE, rotate |-> FALSE, order |-> FALSE,
          broadcast |-> FALSE]

\* k = np.array(sorted(bravais.irreducibles(size))); points = len(k)
\* v[, V] = dispersion(matrix, 2 * np.pi / size * k, ...): the locals of a
\* worker as it enters dispersion
FullCallDispersion(a) ==
  LET k == np_array_sorted(bravais_irreducibles(a.size))
  IN [NoLocals EXCEPT !.k = k, !.d = FullDispersionCall(a, k)]

\* [n for n in range(points) if keep[n]]
IndicesWhere(keep) ==
  SelectSeq([j \in 1 .. ArrLen(keep) |-> j - 1], LAMBDA n : keep[n])

\* a[path] for a list of indices
Take(a, path) == Stored([j \in Range(Len(path)) |-> a[path[j + 1]]])

\* V[m, :, o[m]]: the two index arrays m and o[m] are separated by a slice,
\* so numpy puts their axis first: entry [x, y] is V[m, y, o[m, x]]
TakeColumnsFirstAxis(Vm, om) ==
  [x \in Range(bands) |-> [y \in Range(bands) |-> Vm[y][om[x]]]]

\* for m, M in zip(side_path, side_order):
\*     o[m] = M[N]; v[m] = v[m, o[m]]; if vectors: V[m] = V[m, :, o[m]]
RECURSIVE SideLoop(_, _, _, _, _)
SideLoop(st, side_path, side_order, N, j) ==
  IF j > Len(side_path) THEN st
  ELSE CHOOSE rest \in
    {SideLoop(next, side_path, side_order, N, j + 1) :
       next \in
         {[o |-> Stored([st.o EXCEPT ![side_path[j]] = om]),
           v |-> Stored([st.v EXCEPT ![side_path[j]] =
                   Stored([i \in Range(bands) |-> st.v[side_path[j]][om[i]]])]),
           V |-> Stored([st.V EXCEPT ![side_path[j]] =
                   IF arg.vectors THEN Stored(TakeColumnsFirstAxis(@, om)) ELSE @])] :
            om \in {Stored([i \in Range(bands) |-> side_order[j - 1][N[i]]])}}} : TRUE

\* for n, N in zip(main_path, main_order):
\*     side_path = [m for m in range(points) if k[m, 1] == k[n, 1]]
\*     side_order = band_order(v[side_path], V[side_path], by_mean=False)
RECURSIVE MainLoop(_, _, _, _, _)
MainLoop(st, k, main_path, main_order, j) ==
  IF j > Len(main_path) THEN st
  ELSE CHOOSE rest \in
    {MainLoop(next, k, main_path, main_order, j + 1) :
       next \in
         {CHOOSE sided \in
            {SideLoop(st, side_path, side_order, main_order[j - 1], 1) :
               side_order \in {band_order(Take(st.v, side_path),
                                          Take(st.V, side_path), FALSE).o}} : TRUE :
            side_path \in
              {IndicesWhere([m \in DOMAIN k |-> k[m][1] = k[main_path[j]][1]])}}} : TRUE

\* main_path = [n for n in range(points) if not k[n, 0]]
\* main_order = band_order(v[main_path], V[main_path])
SpiderWeb(k, v, V, o) ==
  CHOOSE st \in
    {CHOOSE ordered \in
       {MainLoop([o |-> o, v |-> v, V |-> V], k, main_path, main_order, 1) :
          main_order \in {band_order(Take(v, main_path), Take(V, main_path), TRUE).o}} :
       TRUE :
       main_path \in {IndicesWhere([n \in DOMAIN k |-> k[n][0] = 0])}} : TRUE

\* if order and comm.rank == 0: o = np.empty((points, bands), dtype=int) and
\* the ordering along the main path and the side paths: the wedge arrays
\* [o, v, V] of worker r after line 153
Wedges(r) ==
  IF arg.order /\ r = 0
    THEN {SpiderWeb(loc[r].k, loc[r].v, loc[r].V,
                    Reshape(empty, ArrLen(loc[r].k), bands)) :
            empty \in np_empty_int(ArrLen(loc[r].k) * bands)}
    ELSE {[o |-> loc[r].o, v |-> loc[r].v, V |-> loc[r].V]}

\* the (size, size, w) view of a buffer, and the (size, size, w, w) view
Mesh3(flat, size, w) ==
  [K1 \in Range(size) |-> [K2 \in Range(size) |->
     [x \in Range(w) |-> flat[(K1 * size + K2) * w + x]]]]

Mesh4(flat, size, w) ==
  [K1 \in Range(size) |-> [K2 \in Range(size) |->
     [x \in Range(w) |-> [y \in Range(w) |->
        flat[((K1 * size + K2) * w + x) * w + y]]]]]

\* bravais.images(k1, k2, size) for every (k1, k2) of k
ImagesOf(k, size) ==
  Stored([point \in DOMAIN k |-> bravais_images(k[point][0], k[point][1], size)])

\* for point, (k1, k2) in enumerate(k):
\*     for K1, K2 in bravais.images(k1, k2, size): mesh[K1, K2] = a[point]
\* with the mesh point of the wedge point alone written
FillMeshWedgeOnly(mesh, k, a, size) ==
  Stored([K1 \in Range(size) |-> [K2 \in Range(size) |->
     LET hits == {point \in DOMAIN k : <<K1, K2>> = <<k[point][0], k[point][1]>>}
     IN IF hits = {} THEN mesh[K1][K2]
        ELSE a[CHOOSE point \in hits : \A other \in hits : other <= point]]])

\* a later point overwrites what an earlier one wrote
FillMesh(mesh, k, a, size) ==
  CHOOSE filled \in
    {Stored([K1 \in Range(size) |-> [K2 \in Range(size) |->
       LET hits == {point \in DOMAIN k : <<K1, K2>> \in images[point]}
       IN IF hits = {} THEN mesh[K1][K2]
          ELSE a[CHOOSE point \in hits : \A other \in hits : other <= point]]]) :
       images \in {ImagesOf(k, size)}} : TRUE

\* v_mesh = np.empty((size, size, bands)), filled on rank 0
EigenvalueMeshes(r, v) ==
  {IF r = 0 THEN FillMesh(Mesh3(empty, arg.size, bands), loc[r].k, v, arg.size)
   ELSE Mesh3(empty, arg.size, bands) :
     empty \in np_empty(arg.size * arg.size * bands)}

\* if vectors: V_mesh = np.empty((size, size, bands, bands), dtype=complex)
EigenvectorMeshes(r, V) ==
  IF ~arg.vectors THEN {<<>>}
  ELSE {IF r = 0
          THEN FillMesh(Mesh4(empty, arg.size, bands), loc[r].k, V, arg.size)
          ELSE Mesh4(empty, arg.size, bands) :
            empty \in np_empty_complex(arg.size * arg.size * bands * bands)}

\* if order: o_mesh = np.empty((size, size, bands), dtype=int)
OrderMeshes(r, o) ==
  IF ~arg.order THEN {<<>>}
  ELSE {IF r = 0
          THEN FillMesh(Mesh3(empty, arg.size, bands), loc[r].k, o, arg.size)
          ELSE Mesh3(empty, arg.size, bands) :
            empty \in np_empty_int(arg.size * arg.size * bands)}

\* the blocks after the filling of the mesh that the flags switch on
FullStages ==
  (IF arg.broadcast THEN <<"dispersion_full:185">> ELSE <<>>) \o
  (IF arg.broadcast /\ arg.vectors THEN <<"dispersion_full:188">> ELSE <<>>) \o
  (IF arg.broadcast /\ arg.order THEN <<"dispersion_full:191">> ELSE <<>>) \o
  <<"dispersion_full:193">>

FullAfter(label) ==
  IF label = "dispersion_full:137" THEN FullStages[1]
  ELSE FullStages[(CHOOSE j \in 1 .. Len(FullStages) : FullStages[j] = label) + 1]

\* lines 137-180, which no collective interrupts: the ordering of the wedge,
\* the allocation of the meshes and, if comm.rank == 0, the transfer of the
\* data points from the wedge to the mesh
FullFillMesh(r) ==
  /\ At(r, "dispersion_full:137")
  /\ \E w \in Wedges(r) :
     \E vm \in EigenvalueMeshes(r, w.v) : \E Vm \in EigenvectorMeshes(r, w.V) :
     \E om \in OrderMeshes(r, w.o) :
       loc' = [loc EXCEPT ![r].o = w.o, ![r].v = w.v, ![r].V = w.V,
                          ![r].v_mesh = vm, ![r].V_mesh = Vm, ![r].o_mesh = om]
  /\ pc' = Goto(r, FullAfter("dispersion_full:137"))
  /\ UNCHANGED <<prog, arg, comm_size, ncoll, chan, stdout>>

\* if broadcast: comm.Bcast(v_mesh)
FullBcastEigenvalues(r) ==
  /\ At(r, "dispersion_full:185")
  /\ \/ BcastSend(r, "Bcast", loc[r].v_mesh) /\ loc' = loc
     \/ /\ BcastWait(r, "Bcast")
        /\ loc' = [loc EXCEPT ![r].v_mesh = BcastReceived(@, RootBuf(r))]
  /\ pc' = Goto(r, FullAfter("dispersion_full:185"))
  /\ UNCHANGED <<prog, arg, comm_size, stdout>>

\* if vectors: comm.Bcast(V_mesh)
FullBcastEigenvectors(r) ==
  /\ At(r, "dispersion_full:188")
  /\ \/ BcastSend(r, "Bcast", loc[r].V_mesh) /\ loc' = loc
     \/ /\ BcastWait(r, "Bcast")
        /\ loc' = [loc EXCEPT ![r].V_mesh = BcastReceived(@, RootBuf(r))]
  /\ pc' = Goto(r, FullAfter("dispersion_full:188"))
  /\ UNCHANGED <<prog, arg, comm_size, stdout>>

\* if order: comm.Bcast(o_mesh)
FullBcastOrder(r) ==
  /\ At(r, "dispersion_full:191")
  /\ \/ BcastSend(r, "Bcast", loc[r].o_mesh) /\ loc' = loc
     \/ /\ BcastWait(r, "Bcast")
        /\ loc' = [loc EXCEPT ![r].o_mesh = BcastReceived(@, RootBuf(r))]
  /\ pc' = Goto(r, FullAfter("dispersion_full:191"))
  /\ UNCHANGED <<prog, arg, comm_size, stdout>>

\* return v_mesh[, V_mesh][, o_mesh]
FullReturn(r) ==
  /\ At(r, "dispersion_full:193")
  /\ pc' = Return(r)
  /\ UNCHANGED <<prog, arg, comm_size, loc, ncoll, chan, stdout>>

InitFull ==
  /\ comm_size \in 1 .. MaxDispWorkers
  /\ prog = "dispersion_full"
  /\ \E size \in 1 .. MaxMesh : \E m \in MeshMatrixFunctions :
     \E ve, ga, od, br \in BOOLEAN :
       \* gauge is read only where eigenvectors are computed; rotate keeps
       \* its default
       /\ (ve \/ od) \/ ~ga
       /\ arg = [matrix |-> m, size |-> size, vectors |-> ve, gauge |-> ga,
                 rotate |-> TRUE, order |-> od, broadcast |-> br]
  /\ pc = [r \in Ranks |-> <<"dispersion:13", "dispersion_full:137", "done">>]
  /\ loc = [r \in Ranks |-> FullCallDispersion(arg)]
  /\ ncoll = [r \in Ranks |-> 0]
  /\ chan = <<>>
  /\ stdout = <<>>

\* the call of dispersion has order=False and broadcast=False: its blocks
\* at lines 73-95 are not entered
NextFull ==
  \/ \E r \in Ranks : DispBcastPoints(r)
  \/ \E r \in Ranks : DistAlloc(r)
  \/ \E r \in Ranks : DistCompute(r)
  \/ \E r \in Ranks : DistBcastRoot(r)
  \/ \E r \in Ranks : DistBcastRecv(r)
  \/ \E r \in Ranks : DistReturn(r)
  \/ \E r \in Ranks : DispScatterv(r)
  \/ \E r \in Ranks : DispGatherEigenvalues(r)
  \/ \E r \in Ranks : DispGatherEigenvectors(r)
  \/ \E r \in Ranks : DispReturn(r)
  \/ \E r \in Ranks : FullFillMesh(r)
  \/ \E r \in Ranks : FullBcastEigenvalues(r)
  \/ \E r \in Ranks : FullBcastEigenvectors(r)
  \/ \E r \in Ranks : FullBcastOrder(r)
  \/ \E r \in Ranks : FullReturn(r)

SpecFull == InitFull /\ [][NextFull]_vars

SpecFullFair == SpecFull /\ WF_vars(NextFull)

----------------------------------------------------------------------------
\* Claims about dispersion_full.

\* worker r has returned from the dispersion_full call of the run
FullReturned(r) == prog = "dispersion_full" /\ At(r, "done")

\* the points of the irreducible wedge, as every worker lists them
WedgeOf(size) == np_array_sorted(bravais_irreducibles(size))

\* the eigenvalues of the matrix at every wedge point
WedgeEigenvalues ==
  LET k == Scaled(WedgeOf(arg.size), arg.size)
  IN Stored([p \in DOMAIN k |-> np_linalg_eigvalsh(arg.matrix, k[p][0], k[p][1])])

\* the mesh worker r returns holds, at every image of every wedge point, the
\* eigenvalues of the wedge point: as the eigensolver gave them without
\* order, and in the slots of the permutation kept beside them with order
MeshHoldsWedge(r) ==
  LET k == WedgeOf(arg.size)
      images == ImagesOf(k, arg.size)
      raw == WedgeEigenvalues
  IN \A p \in DOMAIN k : \A K \in images[p] :
       LET vK == loc[r].v_mesh[K[1]][K[2]]
       IN IF arg.order
            THEN LET oK == loc[r].o_mesh[K[1]][K[2]]
                 IN \A i \in Range(bands) :
                      IF oK[i] \in Range(bands) THEN vK[i] = raw[p][oK[i]]
                      ELSE FALSE
            ELSE vK = raw[p]

\* the mesh of worker r is the leader's wedge arrays, image by image, and
\* the mesh points of one orbit hold the same eigenvalues
MeshIsLeaderWedge(r) ==
  LET images == ImagesOf(loc[0].k, arg.size)
  IN \A p \in DOMAIN loc[0].k : \A K \in images[p] :
       /\ loc[r].v_mesh[K[1]][K[2]] = loc[0].v[p]
       /\ arg.order => loc[r].o_mesh[K[1]][K[2]] = loc[0].o[p]
       /\ \A L \in images[p] :
            loc[r].v_mesh[K[1]][K[2]] = loc[r].v_mesh[L[1]][L[2]]

\* C10: in the mesh dispersion_full returns, every mesh point that is an
\* image of a wedge point holds that wedge point's eigenvalues (and its
\* permutation when order=True), so two mesh points of one orbit hold the
\* same eigenvalues.  As stated, for the mesh every worker returns:
C10_MeshHoldsWedgeEverywhere ==
  \A r \in Ranks : FullReturned(r) => MeshHoldsWedge(r)

\* C10 as the code has it: for the mesh the leader returns, and with
\* broadcast=True for the mesh every worker returns.
C10_MeshHoldsWedge ==
  \A r \in Ranks :
    (FullReturned(r) /\ (r = 0 \/ arg.broadcast)) =>
      /\ MeshHoldsWedge(r)
      /\ MeshIsLeaderWedge(r)

\* worker 1 has returned the mesh of 3 x 3 points with order=True: the orbit
\* of the wedge point (0, 1) holds its eigenvalues in exchanged slots
C10_Witness ==
  /\ comm_size = 2
  /\ FullReturned(1)
  /\ arg.size = 3 /\ arg.order /\ arg.broadcast
  /\ arg.matrix = "diag"
  /\ loc[1].o_mesh[2][1] = (0 :> 1 @@ 1 :> 0)
  /\ loc[1].v_mesh[2][1] = loc[0].v[1]
  /\ loc[1].v_mesh[2][1] = loc[1].v_mesh[0][1]
  /\ loc[1].v_mesh[2][1] # loc[1].v_mesh[0][0]

\* every worker of the run has returned from the call
AllReturned == \A r \in Ranks : At(r, "done")

\* C20: for every combination of the flags vectors, gauge, rotate, order and
\* broadcast (the same on all workers) and every worker count, all workers
\* running dispersion enter the same collective operations in the same
\* order, the leader-only ordering block contains no collective, and
\* therefore every worker eventually returns (no deadlock).
C20_EveryWorkerReturns == (prog = "dispersion") ~> AllReturned

\* what holds of C20 for dispersion: with at least one k point, or without
\* order, every worker eventually returns
ReturnsGivenPoints ==
  (prog = "dispersion" /\ (ArrLen(arg.k) > 0 \/ ~arg.order)) ~> AllReturned

\* with order and no k point the leader raises in band_order and, with
\* broadcast, every other worker waits in comm.Bcast(v) for ever
LeaderRaisedOthersWait ==
  /\ prog = "dispersion" /\ arg.order /\ ArrLen(arg.k) = 0 /\ arg.broadcast
  /\ comm_size > 1
  /\ At(0, "IndexError")
  /\ \A r \in Ranks \ {0} : At(r, "dispersion:89")
  /\ ~ENABLED NextDispersion

\* what holds of C20 for dispersion_full: every worker eventually returns
FullEveryWorkerReturns == (prog = "dispersion_full") ~> AllReturned

\* the eigenvectors of every wedge point as the call of dispersion at lines
\* 122-123 returns them, before the ordering
WedgeEigenvectors ==
  RawEigenvectors(FullDispersionCall(arg, WedgeOf(arg.size)))

\* the leader has run the ordering of lines 137-153 with vectors and order
Reordered == FullReturned(0) /\ arg.vectors /\ arg.order

\* slot i of the eigenvalues of every wedge point is the original eigenvalue
\* of band o[m, i]
EigenvaluesFollowOrder ==
  Reordered =>
    \A m \in DOMAIN loc[0].k : \A i \in Range(bands) :
      IF loc[0].o[m][i] \in Range(bands)
        THEN loc[0].v[m][i] = WedgeEigenvalues[m][loc[0].o[m][i]]
        ELSE FALSE

\* column i of V[m] is the original eigenvector column o[m, i]
ColumnsFollowOrder ==
  Reordered =>
    \A m \in DOMAIN loc[0].k : \A i \in Range(bands) :
      IF loc[0].o[m][i] \in Range(bands)
        THEN \A a \in Range(bands) :
               loc[0].V[m][a][i] = WedgeEigenvectors[m][a][loc[0].o[m][i]]
        ELSE FALSE

\* C22: in dispersion_full with vectors=True and order=True, after the
\* spider-web reordering each wedge point m keeps eigenvalues and
\* eigenvectors paired: for every slot i, v[m, i] is the original eigenvalue
\* of band o[m, i] and column i of V[m] (V[m, :, i]) is the original
\* eigenvector column o[m, i], the column-permutation convention that
\* dispersion applies when it reorders.
C22_PairsKept == EigenvaluesFollowOrder /\ ColumnsFollowOrder

\* what the code does in place of C22: V[m] = V[m, :, o[m]] puts the axis of
\* o[m] first, so row i of V[m] (V[m, i, :]) is the original eigenvector
\* column o[m, i]
RowsFollowOrder ==
  Reordered =>
    \A m \in DOMAIN loc[0].k : \A i \in Range(bands) :
      IF loc[0].o[m][i] \in Range(bands)
        THEN \A a \in Range(bands) :
               loc[0].V[m][i][a] = WedgeEigenvectors[m][a][loc[0].o[m][i]]
        ELSE FALSE

\* the leader has reordered a wedge whose point 1 has an eigenvector matrix
\* that is not symmetric, with a permutation as o[1]: the eigenvalues follow
\* o, the eigenvectors stand in the rows of V[1], and column 0 of V[1] is
\* not the eigenvector of band o[1, 0]
EigenvectorsTransposed ==
  /\ Reordered /\ ArrLen(loc[0].k) > 1
  /\ arg.matrix = "tilted"
  /\ {loc[0].o[1][i] : i \in Range(bands)} = Range(bands)
  /\ loc[0].v[1][0] = WedgeEigenvalues[1][loc[0].o[1][0]]
  /\ \A a \in Range(bands) :
       loc[0].V[1][0][a] = WedgeEigenvectors[1][a][loc[0].o[1][0]]
  /\ \E a \in Range(bands) :
       loc[0].V[1][a][0] # WedgeEigenvectors[1][a][loc[0].o[1][0]]

----------------------------------------------------------------------------
\* Numbers of the diagram evaluator.  A real number is a fraction <<n, d>> in
\* lowest terms with d > 0; the result of a division by zero is NaN, written
\* <<0, 0>>, which every later operation hands on (numpy gives nan or inf
\* with a warning and goes on).

NaN == <<0, 0>>

RECURSIVE Gcd(_, _)
Gcd(a, b) == IF b = 0 THEN a ELSE Gcd(b, a % b)

Frac(n, d) ==
  LET g == Gcd(Abs(n), Abs(d))
  IN IF d < 0 THEN <<(0 - n) \div g, (0 - d) \div g>> ELSE <<n \div g, d \div g>>

Q(n) == <<n, 1>>

QAdd(a, b) ==
  IF a = NaN \/ b = NaN THEN NaN
  ELSE Frac(a[1] * b[2] + b[1] * a[2], a[2] * b[2])

QNeg(a) == IF a = NaN THEN NaN ELSE <<0 - a[1], a[2]>>

QSub(a, b) == QAdd(a, QNeg(b))

QMul(a, b) ==
  IF a = NaN \/ b = NaN THEN NaN ELSE Frac(a[1] * b[1], a[2] * b[2])

QDiv(a, b) ==
  IF a = NaN \/ b = NaN THEN NaN
  ELSE IF b[1] = 0 THEN NaN
  ELSE Frac(a[1] * b[2], a[2] * b[1])

QLess(a, b) == a[1] * b[2] < b[1] * a[2]

QAbs(a) == <<Abs(a[1]), a[2]>>

\* int(round(x)): the nearest integer, the even one of two equally near
Round(x) ==
  LET lo == x[1] \div x[2]
      twice == 2 * (x[1] - lo * x[2])
  IN IF twice < x[2] THEN lo
     ELSE IF twice > x[2] THEN lo + 1
     ELSE IF lo % 2 = 0 THEN lo ELSE lo + 1

\* a.sum() of a 2-d array of n x n numbers
RECURSIVE QSumTo(_, _, _)
QSumTo(a, n, c) ==
  IF c = 0 THEN Q(0)
  ELSE QAdd(QSumTo(a, n, c - 1), a[(c - 1) \div n][(c - 1) % n])

QSum(a, n) == QSumTo(a, n, n * n)

\* two 2-d arrays have one shape
SameShape(a, b) ==
  /\ DOMAIN a = DOMAIN b
  /\ \A i \in DOMAIN a : DOMAIN a[i] = DOMAIN b[i]

\* elementwise operations on arrays of one shape
ArrSub(a, b) ==
  Stored([i \in DOMAIN a |-> [j \in DOMAIN a[i] |-> QSub(a[i][j], b[i][j])]])

\* a / s for a 2-d array a and a scalar s
ArrOver(a, s) ==
  Stored([i \in DOMAIN a |-> [j \in DOMAIN a[i] |-> QDiv(a[i][j], s)]])

\* np.tile(a, (2, 2)) of an n x n array, with the tiling left out
np_tile_once(a, n) == Stored(a)

\* np.tile(a, (2, 2)) of an n x n array
np_tile(a, n) ==
  Stored([i \in Range(2 * n) |-> [j \in Range(2 * n) |-> a[i % n][j % n]]])

\* a[lo1:hi1, lo2:hi2]: a slice ends where the array ends
Slice2(a, lo1, hi1, lo2, hi2) ==
  LET n1 == IF hi1 > ArrLen(a) THEN ArrLen(a) ELSE hi1
  IN Stored([i \in Range(n1 - lo1) |->
       LET row == a[lo1 + i]
           n2 == IF hi2 > ArrLen(row) THEN ArrLen(row) ELSE hi2
       IN [j \in Range(n2 - lo2) |-> row[lo2 + j]]])

\* complex numbers <<re, im>> of two fractions
ZReal(x) == <<x, Q(0)>>

ZAdd(a, b) == <<QAdd(a[1], b[1]), QAdd(a[2], b[2])>>

ZSub(a, b) == <<QSub(a[1], b[1]), QSub(a[2], b[2])>>

ZMul(a, b) ==
  <<QSub(QMul(a[1], b[1]), QMul(a[2], b[2])),
    QAdd(QMul(a[1], b[2]), QMul(a[2], b[1]))>>

ZConj(a) == <<a[1], QNeg(a[2])>>

\* a / b = a conj(b) / |b|^2; a zero denominator leaves no number
ZDiv(a, b) ==
  LET norm == QAdd(QMul(b[1], b[1]), QMul(b[2], b[2]))
      top == ZMul(a, ZConj(b))
  IN <<QDiv(top[1], norm), QDiv(top[2], norm)>>

ZIsNaN(a) == a[1] = NaN \/ a[2] = NaN

\* np.sum of an n x n array of complex numbers
RECURSIVE ZSumTo(_, _, _)
ZSumTo(a, n, c) ==
  IF c = 0 THEN ZReal(Q(0))
  ELSE ZAdd(ZSumTo(a, n, c - 1), a[(c - 1) \div n][(c - 1) % n])

ZSum(a, n) == ZSumTo(a, n, n * n)

----------------------------------------------------------------------------
\* Occupation models (occupations.py): a function of x = e / kT with an
\* attribute delta, its negative derivative.  The models of the runs are the
\* linear steps of half width w: 1 below -w, 0 above w.

OccupationModels == {1, 2}

occupations(w, x) ==
  IF ~QLess(Q(0 - w), x) THEN Q(1)
  ELSE IF ~QLess(x, Q(w)) THEN Q(0)
  ELSE QSub(Frac(1, 2), QDiv(x, Q(2 * w)))

occupations_delta(w, x) ==
  IF QLess(QAbs(x), Q(w)) THEN Frac(1, 2 * w) ELSE Q(0)

\* the occupation function applied to every element of x
ArrOccupations(occ, x) ==
  Stored([i \in DOMAIN x |-> [j \in DOMAIN x[i] |-> occupations(occ, x[i][j])]])

\* the occupation function's delta applied to every element of x
ArrDelta(occ, x) ==
  Stored([i \in DOMAIN x |-> [j \in DOMAIN x[i] |-> occupations_delta(occ, x[i][j])]])

----------------------------------------------------------------------------
\* diagrams.susceptibility (diagrams.py 11-63)

\* mesh sizes nk of the electron dispersion
MaxNk == 2

\* the electron dispersions e of the runs on the nk x nk mesh, energies in
\* eV: a flat band at the Fermi level, a band rising along the first axis, and
\* one that differs from point to point
Dispersions == {"flat", "rising", "mixed"}

Dispersion(kind, nk) ==
  Stored([i \in Range(nk) |-> [j \in Range(nk) |->
     IF kind = "flat" THEN Q(0)
     ELSE IF kind = "rising" THEN Q(i - 1)
     ELSE Q(((i + 2 * j) % 3) - 1)]])

\* kT = kB * T in eV; the temperatures of the runs are 1 eV / kB and 2 eV / kB
Temperatures == {1, 2}

kB_times(T) == Q(T)

\* the values of eta (and of the imaginary part of i0) of the runs
Regularizers == {0, 1, 2}

\* the arguments q1, q2 of a closure, in units of 2 pi: the half steps of the
\* mesh from below 0 to above 2 pi
Wavevectors(nk) == {Frac(t, 2 * nk) : t \in -1 .. 2 * nk + 1}

\* the state of the closure susceptibility returns (lines 34-47)
susceptibility(e, T, eta, occ) ==
  LET nk == ArrLen(e)
      kT == kB_times(T)
      x == ArrOver(e, kT)
  IN [nk |-> nk,
      d |-> QDiv(QSum(ArrDelta(occ, x), nk), kT),
      e |-> np_tile(e, nk),
      f |-> np_tile(ArrOccupations(occ, x), nk),
      scale |-> Q(nk),
      eta2 |-> QMul(Q(eta), Q(eta)),
      prefactor |-> Frac(2, nk * nk)]

\* int(round(q * scale)) % nk
MeshIndex(q, scale, nk) == Round(QMul(q, scale)) % nk

\* if q1 == q2 == 0, with the branch never taken
IsGammaNever(q1, q2) == FALSE

IsGamma(q1, q2) == q1 = 0 /\ q2 = 0

\* calculate_susceptibility(q1, q2) (lines 49-59) of closure cl: the rounded
\* indices, the branch, the shifted slice of e and the value returned.
\* Arrays of different shapes (none of length 1 here) cannot be subtracted:
\* numpy raises ValueError.
calculate_susceptibility(cl, q1, q2) ==
  LET nk == cl.nk
      i1 == MeshIndex(q1, cl.scale, nk)
      i2 == MeshIndex(q2, cl.scale, nk)
      fkq == Slice2(cl.f, i1, i1 + nk, i2, i2 + nk)
      ekq == Slice2(cl.e, i1, i1 + nk, i2, i2 + nk)
      fk == Slice2(cl.f, 0, nk, 0, nk)
      ek == Slice2(cl.e, 0, nk, 0, nk)
      df == ArrSub(fkq, fk)
      de == ArrSub(ekq, ek)
      term == Stored([i \in DOMAIN df |-> [j \in DOMAIN df[i] |->
                QDiv(QMul(df[i][j], de[i][j]),
                     QAdd(QMul(de[i][j], de[i][j]), cl.eta2))]])
  IN IF IsGamma(i1, i2)
       THEN [q1 |-> i1, q2 |-> i2, Gamma |-> TRUE, ekq |-> <<>>, raised |-> "",
             value |-> QMul(QNeg(cl.prefactor), cl.d)]
       ELSE IF ~SameShape(fkq, fk) \/ ~SameShape(ekq, ek)
         THEN [q1 |-> i1, q2 |-> i2, Gamma |-> FALSE, ekq |-> ekq,
               raised |-> "ValueError", value |-> NaN]
         ELSE [q1 |-> i1, q2 |-> i2, Gamma |-> FALSE, ekq |-> ekq, raised |-> "",
               value |-> QMul(cl.prefactor, QSum(term, nk))]

\* calls of one closure in a run
MaxCalls == 2

\* chi = susceptibility(e, T, eta, occupations)
SusceptibilityBuild(r) ==
  /\ At(r, "susceptibility:34")
  /\ loc' = [loc EXCEPT ![r].closure =
       susceptibility(Dispersion(arg.e, arg.nk), arg.T, arg.eta, arg.occupations)]
  /\ pc' = Goto(r, "chi")
  /\ UNCHANGED <<prog, arg, comm_size, ncoll, chan, stdout>>

\* the caller chooses the arguments of the next call of the closure
SusceptibilityAsk(r) ==
  /\ At(r, "chi")
  /\ loc[r].calls < MaxCalls
  /\ \E q1, q2 \in Wavevectors(arg.nk) :
       loc' = [loc EXCEPT ![r].q = <<q1, q2>>, ![r].call = <<>>]
  /\ pc' = Goto(r, "chi(q1, q2)")
  /\ UNCHANGED <<prog, arg, comm_size, ncoll, chan, stdout>>

\* chi(q1, q2)
SusceptibilityCall(r) ==
  /\ At(r, "chi(q1, q2)")
  /\ loc' = [loc EXCEPT ![r].calls = @ + 1,
                        ![r].call = calculate_susceptibility(loc[r].closure,
                                                             loc[r].q[1], loc[r].q[2])]
  /\ pc' = Goto(r, "chi")
  /\ UNCHANGED <<prog, arg, comm_size, ncoll, chan, stdout>>

\* diagrams.polarization (diagrams.py 146-255)

\* nk, nk, nb = e.shape and nk, nk, no, nb = c.shape of the runs
PolBands == 2

PolOrbitals == 2

\* e[k1, k2, n]: band n lies 1 eV above band n - 1
Energies(kind, nk) ==
  LET e0 == Dispersion(kind, nk)
  IN Stored([i \in Range(nk) |-> [j \in Range(nk) |->
       [n \in Range(PolBands) |-> QAdd(e0[i][j], Q(n))]]])

\* c[k1, k2, a, n] = <k a|k n>: the bands are the orbitals, or every band
\* has weight in every orbital with a phase that changes with k
Coefficients == {"identity", "mixed"}

Coefficient(kind, nk) ==
  Stored([i \in Range(nk) |-> [j \in Range(nk) |->
    [a \in Range(PolOrbitals) |-> [n \in Range(PolBands) |->
       IF kind = "identity"
         THEN (IF a = n THEN ZReal(Q(1)) ELSE ZReal(Q(0)))
         ELSE <<Q(1 + a * n), Q(i + j * n - a)>>]]]])

\* subspace: None, or a boolean array of the shape of e
Subspaces == {"None", "band 0", "row 0"}

Subspace(kind, nk) ==
  Stored([i \in Range(nk) |-> [j \in Range(nk) |-> [n \in Range(PolBands) |->
     IF kind = "band 0" THEN n = 0 ELSE i = 0]]])

\* the state of the closure polarization returns (lines 181-212); i0 is the
\* imaginary number eta i
polarization(e, c, T, eta, subspace, occ) ==
  LET nk == ArrLen(e)
      kT == kB_times(T)
  IN [nk |-> nk,
      cRPA |-> subspace # "None",
      d |-> Stored([i \in Range(nk) |-> [j \in Range(nk) |-> [n \in Range(PolBands) |->
              QDiv(occupations_delta(occ, QDiv(e[i][j][n], kT)), QNeg(kT))]]]),
      e |-> np_tile(e, nk),
      f |-> np_tile([i \in Range(nk) |-> [j \in Range(nk) |-> [n \in Range(PolBands) |->
              occupations(occ, QDiv(e[i][j][n], kT))]]], nk),
      c |-> np_tile(c, nk),
      subspace |-> IF subspace # "None" THEN np_tile(Subspace(subspace, nk), nk)
                   ELSE <<>>,
      scale |-> Q(nk),
      prefactor |-> Frac(2, nk * nk),
      i0 |-> <<Q(0), Q(eta)>>]

\* subspace[kq1, kq2, m] & subspace[k1, k2, n], with `or` in place of `and`
ExcludedEither(final, initial) == final \/ initial

ExcludedBoth(final, initial) == final /\ initial

\* dfde[exclude] = 0.0 (line 239) with a write that halves the weight it
\* finds in place of the constant
ExcludedWeightHalved(w) == ZMul(w, ZReal(Frac(1, 2)))

\* dfde[exclude] = 0.0 (line 239): the weight an excluded transition is left
\* with, whatever weight w the array held
ExcludedWeight(w) == ZReal(Q(0))

\* calculate_polarization(q1, q2) (lines 214-251) of closure cl: the rounded
\* indices, the shifted slice of e, the weight dfde of every transition
\* (n, m, k) after the exclusion, the array d as the call leaves it (at
\* Gamma dfde is a view of d[:, :, n], so the exclusion writes into d), and
\* the value returned; found is the array d as the call found it.
calculate_polarization(cl, q1, q2) ==
  LET nk == cl.nk
      i1 == MeshIndex(q1, cl.scale, nk)
      i2 == MeshIndex(q2, cl.scale, nk)
      Gamma == IsGamma(i1, i2)
      ekq == Slice2(cl.e, i1, i1 + nk, i2, i2 + nk)
      fkq == Slice2(cl.f, i1, i1 + nk, i2, i2 + nk)
      ckq == Slice2(cl.c, i1, i1 + nk, i2, i2 + nk)
      ek == Slice2(cl.e, 0, nk, 0, nk)
      fk == Slice2(cl.f, 0, nk, 0, nk)
      ck == Slice2(cl.c, 0, nk, 0, nk)
      skq == IF cl.cRPA THEN Slice2(cl.subspace, i1, i1 + nk, i2, i2 + nk) ELSE <<>>
      sk == IF cl.cRPA THEN Slice2(cl.subspace, 0, nk, 0, nk) ELSE <<>>
      plain(n, m) ==
        IF Gamma /\ n = m
          THEN [i \in Range(nk) |-> [j \in Range(nk) |-> ZReal(cl.d[i][j][n])]]
          ELSE [i \in Range(nk) |-> [j \in Range(nk) |->
                 ZDiv(ZReal(QSub(fkq[i][j][m], fk[i][j][n])),
                      ZAdd(ZReal(QSub(ekq[i][j][m], ek[i][j][n])), cl.i0))]]
      dfde == Stored([n \in Range(PolBands) |-> [m \in Range(PolBands) |->
                [i \in Range(nk) |-> [j \in Range(nk) |->
                   IF cl.cRPA /\ ExcludedBoth(skq[i][j][m], sk[i][j][n])
                     THEN ExcludedWeight(plain(n, m)[i][j])
                     ELSE plain(n, m)[i][j]]]]])
      cc(n, m, a) == [i \in Range(nk) |-> [j \in Range(nk) |->
                        ZMul(ZConj(ckq[i][j][a][m]), ck[i][j][a][n])]]
      Pi == Stored([n \in Range(PolBands) |-> [m \in Range(PolBands) |->
              [a \in Range(PolOrbitals) |-> [b \in Range(PolOrbitals) |->
                 ZSum([i \in Range(nk) |-> [j \in Range(nk) |->
                         ZMul(ZMul(cc(n, m, a)[i][j], ZConj(cc(n, m, b)[i][j])),
                              dfde[n][m][i][j])]], nk)]]]])
      shapes == SameShape(ekq, ek) /\ SameShape(fkq, fk) /\ SameShape(ckq, ck)
  IN IF ~shapes
       THEN [q1 |-> i1, q2 |-> i2, Gamma |-> Gamma, ekq |-> ekq,
             raised |-> "ValueError", dfde |-> <<>>, found |-> cl.d, d |-> cl.d,
             value |-> <<>>]
       ELSE [q1 |-> i1, q2 |-> i2, Gamma |-> Gamma, ekq |-> ekq, raised |-> "",
             dfde |-> dfde,
             found |-> cl.d,
             d |-> IF Gamma
                     THEN Stored([i \in Range(nk) |-> [j \in Range(nk) |->
                            [n \in Range(PolBands) |-> dfde[n][n][i][j][1]]]])
                     ELSE cl.d,
             value |-> Stored([a \in Range(PolOrbitals) |-> [b \in Range(PolOrbitals) |->
                         ZMul(ZReal(cl.prefactor),
                              ZSum([n \in Range(PolBands) |-> [m \in Range(PolBands) |->
                                      Pi[n][m][a][b]]], PolBands))]])]

\* Pi = polarization(e, c, T, i0, subspace, occupations)
PolarizationBuild(r) ==
  /\ At(r, "polarization:181")
  /\ loc' = [loc EXCEPT ![r].closure =
       polarization(Energies(arg.e, arg.nk), Coefficient(arg.c, arg.nk), arg.T,
                    arg.eta, arg.subspace, arg.occupations)]
  /\ pc' = Goto(r, "Pi")
  /\ UNCHANGED <<prog, arg, comm_size, ncoll, chan, stdout>>

\* the arguments q1, q2 of the polarization closure, in units of 2 pi: the
\* mesh points from 0 to 2 pi
MeshWavevectors(nk) == {Frac(t, nk) : t \in 0 .. nk}

\* the caller chooses the arguments of the next call of the closure
PolarizationAsk(r) ==
  /\ At(r, "Pi")
  /\ loc[r].calls < MaxCalls
  /\ \E q1, q2 \in MeshWavevectors(arg.nk) :
       loc' = [loc EXCEPT ![r].q = <<q1, q2>>, ![r].call = <<>>]
  /\ pc' = Goto(r, "Pi(q1, q2)")
  /\ UNCHANGED <<prog, arg, comm_size, ncoll, chan, stdout>>

\* Pi(q1, q2)
PolarizationCall(r) ==
  /\ At(r, "Pi(q1, q2)")
  /\ LET call == calculate_polarization(loc[r].closure, loc[r].q[1], loc[r].q[2])
     IN loc' = [loc EXCEPT ![r].calls = @ + 1,
                           ![r].call = call,
                           ![r].closure.d = call.d]
  /\ pc' = Goto(r, "Pi")
  /\ UNCHANGED <<prog, arg, comm_size, ncoll, chan, stdout>>

\* diagrams.phonon_self_energy (diagrams.py 257-327): the arrays of lines
\* 284-297
phonon_self_energy_setup(e, T, eta, occ) ==
  LET nk == ArrLen(e)
      kT == kB_times(T)
      x == ArrOver(e, kT)
  IN [nk |-> nk,
      d |-> ArrOver(ArrDelta(occ, x), QNeg(kT)),
      e |-> np_tile(e, nk),
      f |-> np_tile(ArrOccupations(occ, x), nk),
      scale |-> Q(nk),
      prefactor |-> Frac(2, nk * nk),
      i0 |-> <<Q(0), Q(eta)>>]

PseSetup(r) ==
  /\ At(r, "phonon_self_energy:284")
  /\ loc' = [loc EXCEPT ![r].closure =
       phonon_self_energy_setup(Dispersion(arg.e, arg.nk), arg.T, arg.eta,
                                arg.occupations)]
  /\ pc' = Goto(r, "phonon_self_energy:299")
  /\ UNCHANGED <<prog, arg, comm_size, ncoll, chan, stdout>>

\* local variables of a run of the diagram evaluator
NoClosure == [closure |-> <<>>, calls |-> 0, q |-> <<>>, call |-> <<>>]

InitDiagrams ==
  /\ comm_size = 1
  /\ \E nk \in 1 .. MaxNk : \E e \in Dispersions : \E T \in Temperatures :
     \E eta \in Regularizers : \E occ \in OccupationModels :
       \/ /\ prog = "susceptibility"
          /\ arg = [nk |-> nk, e |-> e, T |-> T, eta |-> eta, occupations |-> occ]
          /\ pc = [r \in Ranks |-> <<"susceptibility:34">>]
       \/ /\ prog = "polarization"
          /\ T = 1 /\ occ = 1
          /\ \E c \in Coefficients : \E subspace \in Subspaces :
               arg = [nk |-> nk, e |-> e, c |-> c, T |-> T, eta |-> eta,
                      subspace |-> subspace, occupations |-> occ]
          /\ pc = [r \in Ranks |-> <<"polarization:181">>]
       \/ /\ prog = "phonon_self_energy"
          /\ arg = [nk |-> nk, e |-> e, T |-> T, eta |-> eta, occupations |-> occ]
          /\ pc = [r \in Ranks |-> <<"phonon_self_energy:284">>]
  /\ loc = [r \in Ranks |-> NoClosure]
  /\ ncoll = [r \in Ranks |-> 0]
  /\ chan = <<>>
  /\ stdout = <<>>

NextDiagrams ==
  \/ \E r \in Ranks : SusceptibilityBuild(r)
  \/ \E r \in Ranks : SusceptibilityAsk(r)
  \/ \E r \in Ranks : SusceptibilityCall(r)
  \/ \E r \in Ranks : PolarizationBuild(r)
  \/ \E r \in Ranks : PolarizationAsk(r)
  \/ \E r \in Ranks : PolarizationCall(r)
  \/ \E r \in Ranks : PseSetup(r)
  \/ \E r \in Ranks : PseCallDistribute(r)

SpecDiagrams == InitDiagrams /\ [][NextDiagrams]_vars

----------------------------------------------------------------------------
\* Claims about the diagram evaluator.

\* the closure of the run has been called and has returned
Called(r) == loc[r].calls > 0 /\ (At(r, "chi") \/ At(r, "Pi"))

\* -(2/N) times the sum over the mesh of delta(e / kT) / kT, from the
\* arguments e and T alone
GammaLimit ==
  LET e == Dispersion(arg.e, arg.nk)
      kT == kB_times(arg.T)
      deltas == ArrOver(ArrDelta(arg.occupations, ArrOver(e, kT)), kT)
  IN QNeg(QMul(Frac(2, arg.nk * arg.nk), QSum(deltas, arg.nk)))

\* -(2/N) times the sum over the mesh of the occupation model's delta at
\* x = e / kT
PlainDeltaSum ==
  LET e == Dispersion(arg.e, arg.nk)
      kT == kB_times(arg.T)
      deltas == ArrDelta(arg.occupations, ArrOver(e, kT))
  IN QNeg(QMul(Frac(2, arg.nk * arg.nk), QSum(deltas, arg.nk)))

\* the rounded mesh index of the last call is (0, 0) modulo nk
CalledAtGamma ==
  /\ prog = "susceptibility" /\ Called(0)
  /\ Round(QMul(loc[0].q[1], Q(arg.nk))) % arg.nk = 0
  /\ Round(QMul(loc[0].q[2], Q(arg.nk))) % arg.nk = 0

\* C12 as stated: for every q whose rounded mesh index is (0, 0) modulo nk,
\* the closure that susceptibility(e, T, eta) returns gives -(2/N) times the
\* sum of the occupation model's delta over the mesh.
C12_GammaPlainSum == CalledAtGamma => loc[0].call.value = PlainDeltaSum

\* C12 as the code has it: for every q whose rounded mesh index is (0, 0)
\* modulo nk, the closure gives -(2/N) times the sum over the mesh of
\* delta(e / kT) / kT, the occupation model's delta as a function of energy;
\* the value does not depend on eta, so closures built from the same e and T
\* with different eta agree at Gamma.
C12_GammaLimit ==
  CalledAtGamma => loc[0].call.value = GammaLimit

\* the closure of a 2 x 2 mesh with eta = 2 was called at q2 just below 2 pi,
\* which rounds to index 2 = 0 modulo nk, and gave the non-zero limit
C12_Witness ==
  /\ prog = "susceptibility" /\ Called(0)
  /\ arg.nk = 2 /\ arg.eta = 2 /\ arg.e = "mixed" /\ arg.T = 2
  /\ loc[0].q = <<Frac(0, 1), Frac(3, 4)>>
  /\ loc[0].call.Gamma
  /\ loc[0].call.value = GammaLimit
  /\ GammaLimit # Q(0)

\* the electron dispersion e given to the program of the run
GivenEnergies ==
  IF prog = "polarization" THEN Energies(arg.e, arg.nk) ELSE Dispersion(arg.e, arg.nk)

\* the last call of the closure has taken the shifted slices
Sliced(r) ==
  /\ prog \in {"susceptibility", "polarization"}
  /\ Called(r)
  /\ ~(prog = "susceptibility" /\ loc[r].call.Gamma)

\* C16: for every rounded q index (q1, q2) in 0..nk-1 and every k index
\* (i, j) in 0..nk-1, the slice of the 2x2-tiled grid offset by (q1, q2) reads
\* the element of the original grid at ((i + q1) mod nk, (j + q2) mod nk), and
\* the slice never reaches past the tiled grid: it has nk x nk elements.
C16_TiledSlices ==
  \A r \in Ranks :
    Sliced(r) =>
      LET nk == arg.nk
          q1 == loc[r].call.q1
          q2 == loc[r].call.q2
          ekq == loc[r].call.ekq
      IN /\ q1 \in Range(nk) /\ q2 \in Range(nk)
         /\ q1 + nk <= ArrLen(loc[r].closure.e)
         /\ \A i \in DOMAIN loc[r].closure.e : q2 + nk <= ArrLen(loc[r].closure.e[i])
         /\ loc[r].call.raised = ""
         /\ DOMAIN ekq = Range(nk)
         /\ \A i \in Range(nk) :
              /\ DOMAIN ekq[i] = Range(nk)
              /\ \A j \in Range(nk) :
                   ekq[i][j] = GivenEnergies[(i + q1) % nk][(j + q2) % nk]

\* the closure of a 2 x 2 mesh was called at q = (pi, 0): the slice starts at
\* row 1 and its row 1 is row 2 of the tiled grid, which is row 0 of the
\* original one and differs from row 1
C16_Witness ==
  /\ prog = "susceptibility" /\ Sliced(0)
  /\ arg.nk = 2 /\ arg.e = "mixed"
  /\ loc[0].call.q1 = 1 /\ loc[0].call.q2 = 0
  /\ loc[0].call.ekq[1][0] = loc[0].closure.e[2][0]
  /\ loc[0].call.ekq[1][0] = GivenEnergies[0][0]
  /\ GivenEnergies[0][0] # GivenEnergies[1][0]

\* the weight of the transition from state (k, n) to state (k + q, m) with
\* nothing excluded, from the arguments of polarization alone: the negative
\* delta at Gamma for n = m, and [f(k+q, m) - f(k, n)] / [e(k+q, m) - e(k, n)
\* + i0] otherwise
FullWeight(n, m, i, j, q1, q2) ==
  LET nk == arg.nk
      kT == kB_times(arg.T)
      ek == Energies(arg.e, nk)[i][j][n]
      ekq == Energies(arg.e, nk)[(i + q1) % nk][(j + q2) % nk][m]
  IN IF q1 = 0 /\ q2 = 0 /\ n = m
       THEN ZReal(QNeg(QDiv(occupations_delta(arg.occupations, QDiv(ek, kT)), kT)))
       ELSE ZDiv(ZReal(QSub(occupations(arg.occupations, QDiv(ekq, kT)),
                            occupations(arg.occupations, QDiv(ek, kT)))),
                 ZAdd(ZReal(QSub(ekq, ek)), <<Q(0), Q(arg.eta)>>))

\* the rounded mesh index of the wave vector component q of the last call
IndexOf(q) == Round(QMul(q, Q(arg.nk))) % arg.nk

\* C17: in polarization with a subspace mask, the contribution of a
\* transition from state (k, n) to state (k+q, m) is set to zero exactly when
\* both subspace[k+q, m] and subspace[k, n] are true; a transition with only
\* one of the two states in the subspace keeps its full weight, and with no
\* mask nothing is excluded.
C17_ExcludeBothInSubspace ==
  \A r \in Ranks :
    (prog = "polarization" /\ Called(r)) =>
      LET nk == arg.nk
          q1 == IndexOf(loc[r].q[1])
          q2 == IndexOf(loc[r].q[2])
          mask == Subspace(arg.subspace, nk)
      IN \A n, m \in Range(PolBands) : \A i, j \in Range(nk) :
           loc[r].call.dfde[n][m][i][j] =
             IF /\ arg.subspace # "None"
                /\ mask[(i + q1) % nk][(j + q2) % nk][m]
                /\ mask[i][j][n]
               THEN ZReal(Q(0))
               ELSE FullWeight(n, m, i, j, q1, q2)

\* the closure with band 0 as subspace was called away from Gamma: a
\* transition within band 0 that has weight was set to zero, and a
\* transition from band 0 to band 1 kept its weight
C17_Witness ==
  /\ prog = "polarization" /\ Called(0)
  /\ arg.subspace = "band 0" /\ arg.nk = 2 /\ arg.eta = 1
  /\ IndexOf(loc[0].q[1]) = 1 /\ IndexOf(loc[0].q[2]) = 0
  /\ FullWeight(0, 0, 0, 0, 1, 0) # ZReal(Q(0))
  /\ loc[0].call.dfde[0][0][0][0] = ZReal(Q(0))
  /\ loc[0].call.dfde[0][1][0][0] = FullWeight(0, 1, 0, 0, 1, 0)
  /\ loc[0].call.dfde[0][1][0][0] # ZReal(Q(0))

\* the last call of a closure has not raised, its value holds no result of a
\* division by zero, and it took the delta branch exactly at the rounded
\* index (0, 0)
CallIsRegular(r) ==
  /\ loc[r].call.raised = ""
  /\ loc[r].call.Gamma <=> (IndexOf(loc[r].q[1]) = 0 /\ IndexOf(loc[r].q[2]) = 0)
  /\ IF prog = "susceptibility"
       THEN loc[r].call.value # NaN
       ELSE /\ \A a, b \in Range(PolOrbitals) : ~ZIsNaN(loc[r].call.value[a][b])
            /\ \A n, m \in Range(PolBands) : \A i, j \in Range(arg.nk) :
                 /\ ~ZIsNaN(loc[r].call.dfde[n][m][i][j])
                 /\ (loc[r].call.Gamma /\ n = m /\ arg.subspace = "None")
                      => loc[r].call.dfde[n][m][i][j] = ZReal(loc[r].closure.d[i][j][n])

\* C18: with a non-zero regularizer (eta or i0), no call of susceptibility,
\* phonon_self_energy or polarization divides by zero or raises for any q:
\* the closed-form delta branch is taken exactly when the rounded q index is
\* (0, 0) modulo nk (in polarization only for band pairs with n == m), and
\* in every other case the denominator contains the regularizer.
C18_NoCallRaises ==
  arg.eta # 0 =>
    \A r \in Ranks :
      /\ ~At(r, "TypeError")
      /\ Called(r) => CallIsRegular(r)

\* what holds of C18: the closures of susceptibility and polarization built
\* with a non-zero regularizer never raise and never divide by zero
ClosuresNeverRaise ==
  (arg.eta # 0 /\ prog \in {"susceptibility", "polarization"}) =>
    \A r \in Ranks : Called(r) => CallIsRegular(r)

\* without regularizer a call away from Gamma divides by zero
ZeroRegularizerDivides ==
  /\ arg.eta = 0 /\ Called(0) /\ ~loc[0].call.Gamma
  /\ IF prog = "susceptibility" THEN loc[0].call.value = NaN
     ELSE ZIsNaN(loc[0].call.value[0][0])

\* the closure polarization returns for the arguments of the run, before
\* any call
FreshClosure ==
  polarization(Energies(arg.e, arg.nk), Coefficient(arg.c, arg.nk), arg.T,
               arg.eta, arg.subspace, arg.occupations)

\* C21: the closure returned by polarization returns the same value for a
\* given (q1, q2) whatever sequence of calls preceded it, with or without a
\* subspace mask: the value of every call is the value the first call of a
\* newly built closure returns for these arguments, although a call at Gamma
\* writes the zeros of the exclusion into the captured array d.
C21_SameValueWhateverHistory ==
  \A r \in Ranks :
    (prog = "polarization" /\ Called(r)) =>
      LET first == calculate_polarization(FreshClosure, loc[r].q[1], loc[r].q[2])
      IN /\ loc[r].call.raised = first.raised
         /\ loc[r].call.value = first.value

\* a closure with row 0 of the mesh as subspace was called at Gamma after an
\* earlier call at Gamma: the call found zeros in d where the new closure
\* held a delta, and returned a value that is not zero
C21_Witness ==
  /\ prog = "polarization" /\ Called(0) /\ loc[0].calls >= 2
  /\ arg.subspace = "row 0" /\ arg.nk = 2 /\ arg.e = "flat"
  /\ loc[0].call.Gamma
  /\ loc[0].call.found # FreshClosure.d
  /\ loc[0].call.found[0][0][0] = Q(0)
  /\ FreshClosure.d[0][0][0] # Q(0)
  /\ loc[0].call.found[1][0][0] = FreshClosure.d[1][0][0]
  /\ loc[0].call.value[0][0] # ZReal(Q(0))

----------------------------------------------------------------------------
\* md.Driver.hessian (md.py 246-280).  The driver object of worker r is
\* loc[r].self; every worker calls the method on its own driver.

\* def phonon_self_energy(q, e, g2, T=100.0, i0=1e-10j, occupations=...)
phonon_self_energy_params == <<"q", "e", "g2", "T", "i0", "occupations">>

\* the parameters without a default are the first three
phonon_self_energy_required == 3

\* Python binds a call of npos positional and kws keyword arguments to a
\* signature whose first `required` parameters have no default only if every
\* keyword names a parameter not given by position and every required
\* parameter gets a value; otherwise the call raises TypeError
BindsWithDefaults(params, required, npos, kws) ==
  /\ npos <= Len(params)
  /\ kws \subseteq {params[j] : j \in (npos + 1) .. Len(params)}
  /\ \A j \in (npos + 1) .. required : params[j] \in kws

\* if self.sparse, with the test never true
RaisesNotImplementedNever(self) == FALSE

RaisesNotImplemented(self) == self.sparse

\* if self.sparse: raise NotImplementedError
HessianCheckSparse(r) ==
  /\ At(r, "hessian:256")
  /\ pc' = IF RaisesNotImplemented(loc[r].self)
             THEN [pc EXCEPT ![r] = <<"NotImplementedError">>]
             ELSE Goto(r, "hessian:259")
  /\ UNCHANGED <<prog, arg, comm_size, loc, ncoll, chan, stdout>>

\* self.d = np.empty_like(self.d0)
HessianAlloc(r) ==
  /\ At(r, "hessian:259")
  /\ \E empty \in np_empty_complex(ArrLen(loc[r].self.d0)) :
       loc' = [loc EXCEPT ![r].self.d = empty]
  /\ pc' = Goto(r, "hessian:261")
  /\ UNCHANGED <<prog, arg, comm_size, ncoll, chan, stdout>>

\* for iq in range(len(self.q)): V = self.U.conj().swapaxes(-2, -1); ...
\*     self.d[iq] = V @ self.d0[iq] @ self.U
\* for one orbital and one k point, where the matrices are numbers and
\* np.roll leaves V as it is
HessianTransform(r) ==
  /\ At(r, "hessian:261")
  /\ LET self == loc[r].self
         V == CConj(self.U)
     IN loc' = [loc EXCEPT ![r].self.d =
                  [iq \in Range(ArrLen(self.q)) |->
                     CMul(CMul(V, self.d0[iq]), self.U)]]
  /\ pc' = Goto(r, "hessian:272")
  /\ UNCHANGED <<prog, arg, comm_size, ncoll, chan, stdout>>

\* C = diagrams.phonon_self_energy(self.q, self.e, g=self.d, kT=self.kT,
\*     occupations=self.f)
HessianCallSelfEnergy(r) ==
  /\ At(r, "hessian:272")
  /\ pc' = IF BindsWithDefaults(phonon_self_energy_params,
                                phonon_self_energy_required, 2,
                                {"g", "kT", "occupations"})
             THEN Call(r, "phonon_self_energy:284", "hessian:275")
             ELSE [pc EXCEPT ![r] = <<"TypeError">>]
  /\ UNCHANGED <<prog, arg, comm_size, loc, ncoll, chan, stdout>>

\* q points of the driver
MaxNq == 2

\* the drivers hessian is called on: in sparse mode or not, before or after
\* an earlier call has set self.d
Drivers ==
  {[sparse |-> sp, q |-> [iq \in Range(nq) |-> iq], U |-> U,
    d0 |-> [iq \in Range(nq) |-> <<iq + 1, g>>], d |-> d, C0 |-> 0] :
     sp \in BOOLEAN, nq \in 1 .. MaxNq, U \in {<<1, 0>>, <<0, 1>>},
     g \in {0, 1}, d \in {<<>>, <<"earlier">>}}

InitHessian ==
  /\ comm_size \in 1 .. MaxWorkers
  /\ prog = "hessian"
  /\ arg \in Drivers
  /\ pc = [r \in Ranks |-> <<"hessian:256">>]
  /\ loc = [r \in Ranks |-> [self |-> arg]]
  /\ ncoll = [r \in Ranks |-> 0]
  /\ chan = <<>>
  /\ stdout = <<>>

NextHessian ==
  \/ \E r \in Ranks : HessianCheckSparse(r)
  \/ \E r \in Ranks : HessianAlloc(r)
  \/ \E r \in Ranks : HessianTransform(r)
  \/ \E r \in Ranks : HessianCallSelfEnergy(r)

SpecHessian == InitHessian /\ [][NextHessian]_vars

\* C13: when the driver is in sparse mode, hessian raises NotImplementedError
\* before it changes any attribute of the driver and before it enters any
\* collective: a worker of such a run is either before the test or has
\* raised, its driver is as it was before the call, and the communicator
\* has seen no operation.
C13_SparseRaisesFirst ==
  (prog = "hessian" /\ arg.sparse) =>
    /\ \A r \in Ranks :
         /\ Head(pc[r]) \in {"hessian:256", "NotImplementedError"}
         /\ loc[r].self = arg
         /\ ncoll[r] = 0
    /\ chan = <<>>

\* every worker of a run of two workers in sparse mode has raised, its
\* driver still holding what an earlier call left in self.d
C13_Witness ==
  /\ prog = "hessian" /\ arg.sparse
  /\ comm_size = 2
  /\ \A r \in Ranks : pc[r] = <<"NotImplementedError">>
  /\ \A r \in Ranks : loc[r].self.d = <<"earlier">>

----------------------------------------------------------------------------
\* occupations.methfessel_paxton_general (occupations.py 38-86).  gauss(x)
\* and gauss_delta(x) are the two numbers the function starts from; every
\* number it computes is a fraction times gauss_delta(x), or gauss(x) plus
\* such a number.  H, h and D are held in units of gauss_delta(x), and S as
\* the pair of its coefficients of gauss(x) and gauss_delta(x).

\* the orders N of the runs
MaxOrder == 3

\* the arguments x of the runs
Arguments == {Frac(t, 2) : t \in -4 .. 4}

\* a /= -4 * n, with the sign left out
NextCoefficientUnsigned(a, n) == QDiv(a, Q(4 * n))

\* a /= -4 * n
NextCoefficient(a, n) == QDiv(a, Q(0 - 4 * n))

\* S = gauss(x) ... m = 0   (lines 61-72)
MpStart(r) ==
  /\ At(r, "methfessel_paxton_general:61")
  /\ loc' = [loc EXCEPT ![r] =
       [x |-> arg.x, N |-> arg.N,
        S |-> [gauss |-> Q(1), gauss_delta |-> Q(0)],
        D |-> Q(1), H |-> Q(0), h |-> Q(1), a |-> Q(1), m |-> 0, n |-> 0]]
  /\ pc' = Goto(r, "methfessel_paxton_general:74")
  /\ UNCHANGED <<prog, arg, comm_size, ncoll, chan, stdout>>

\* one pass of the loop for n in range(1, N + 1)   (lines 74-84)
MpIterate(r) ==
  /\ At(r, "methfessel_paxton_general:74")
  /\ loc[r].n < loc[r].N
  /\ LET l == loc[r]
         x == l.x
         n == l.n + 1
         H == QSub(QMul(QMul(Q(2), x), l.h), QMul(Q(2 * l.m), l.H))
         m1 == l.m + 1
         h == QSub(QMul(QMul(Q(2), x), H), QMul(Q(2 * m1), l.h))
         m2 == m1 + 1
         a == NextCoefficient(l.a, n)
     IN loc' = [loc EXCEPT ![r] =
          [l EXCEPT !.n = n, !.H = H, !.h = h, !.m = m2, !.a = a,
                    !.S = [gauss |-> l.S.gauss,
                           gauss_delta |-> QAdd(l.S.gauss_delta, QMul(a, H))],
                    !.D = QAdd(l.D, QMul(a, h))]]
  /\ UNCHANGED <<prog, arg, comm_size, pc, ncoll, chan, stdout>>

\* return S, D
MpReturn(r) ==
  /\ At(r, "methfessel_paxton_general:74")
  /\ loc[r].n = loc[r].N
  /\ pc' = Goto(r, "methfessel_paxton_general:86")
  /\ UNCHANGED <<prog, arg, comm_size, loc, ncoll, chan, stdout>>

InitOccupations ==
  /\ comm_size = 1
  /\ prog = "methfessel_paxton_general"
  /\ \E x \in Arguments : \E N \in 0 .. MaxOrder : arg = [x |-> x, N |-> N]
  /\ pc = [r \in Ranks |-> <<"methfessel_paxton_general:61">>]
  /\ loc = [r \in Ranks |-> <<>>]
  /\ ncoll = [r \in Ranks |-> 0]
  /\ chan = <<>>
  /\ stdout = <<>>

NextOccupations ==
  \/ \E r \in Ranks : MpStart(r)
  \/ \E r \in Ranks : MpIterate(r)
  \/ \E r \in Ranks : MpReturn(r)

SpecOccupations == InitOccupations /\ [][NextOccupations]_vars

\* the Hermite term H(k, x) in units of gauss_delta(x), by the recursion
\* H(k + 1) = 2 x H(k) - 2 k H(k - 1) from H(-1) = 0 and H(0) = 1
RECURSIVE Hermite(_, _)
Hermite(k, x) ==
  IF k < 0 THEN Q(0)
  ELSE IF k = 0 THEN Q(1)
  ELSE QSub(QMul(QMul(Q(2), x), Hermite(k - 1, x)),
            QMul(Q(2 * (k - 1)), Hermite(k - 2, x)))

\* a(n) = a(n - 1) / (-4 n) with a(0) = 1
RECURSIVE Coefficient_a(_)
Coefficient_a(n) == IF n = 0 THEN Q(1) ELSE QDiv(Coefficient_a(n - 1), Q(0 - 4 * n))

\* the sum over k = from .. n of a(k) H(2 k - shift, x)
RECURSIVE SeriesTo(_, _, _, _)
SeriesTo(from, n, shift, x) ==
  IF n < from THEN Q(0)
  ELSE QAdd(SeriesTo(from, n - 1, shift, x),
            QMul(Coefficient_a(n), Hermite(2 * n - shift, x)))

\* C19: in methfessel_paxton_general, after loop iteration n (1 <= n <= N)
\* H holds the Hermite term H(2n-1, x) and h holds H(2n, x), both scaled by
\* the Gaussian delta, a equals a(n) = a(n-1)/(-4n) with a(0) = 1, and S and
\* D have accumulated a(n) H(2n-1) and a(n) H(2n); for N = 0 the loop does
\* not run and the result is exactly (gauss(x), gauss_delta(x)).
C19_HermiteRecursion ==
  \A r \in Ranks :
    (prog = "methfessel_paxton_general" /\ ~At(r, "methfessel_paxton_general:61")) =>
      LET l == loc[r]
      IN /\ l.n >= 1 =>
              /\ l.n <= l.N
              /\ l.H = Hermite(2 * l.n - 1, l.x)
              /\ l.h = Hermite(2 * l.n, l.x)
              /\ l.a = Coefficient_a(l.n)
              /\ l.m = 2 * l.n
              /\ l.S = [gauss |-> Q(1), gauss_delta |-> SeriesTo(1, l.n, 1, l.x)]
              /\ l.D = SeriesTo(0, l.n, 0, l.x)
         /\ (At(r, "methfessel_paxton_general:86") /\ l.N = 0) =>
              /\ l.n = 0
              /\ l.S = [gauss |-> Q(1), gauss_delta |-> Q(0)]
              /\ l.D = Q(1)
         /\ At(r, "methfessel_paxton_general:86") => l.n = l.N

\* the second pass of the loop at x = 1/2 has left H(3, x) = -5 and
\* H(4, x) = 1 (in units of the Gaussian delta) and a(2) = 1/32
C19_Witness ==
  /\ prog = "methfessel_paxton_general"
  /\ At(0, "methfessel_paxton_general:74")
  /\ arg.x = Frac(1, 2)
  /\ loc[0].n = 2
  /\ loc[0].H = Q(0 - 5) /\ loc[0].h = Q(1) /\ loc[0].a = Frac(1, 32)
  /\ loc[0].D = QAdd(Q(1), QAdd(QMul(Frac(0 - 1, 4), Q(0 - 1)), Frac(1, 32)))

====
